---- MODULE Spec2Model ----
(***************************************************************************)
(* HealthPackTracker: the flat-file record store (inventory, vendors,      *)
(* categories, waste log), the request handlers of routes.py that mutate   *)
(* it, and the waste-log archival cycle of utils.py.                       *)
(*                                                                         *)
(* Every collection is a CSV file that is read in full and rewritten in    *)
(* full.  A file is on disk or missing, and holds the sequence of its      *)
(* rows; a numeric column of a row is text, modelled as the form of the    *)
(* text and the number it denotes.  Numbers (quantities, unit costs,       *)
(* values) are integers.  Opaque pass-through columns that no decision     *)
(* reads (unit label, contact fields, descriptions, last_updated) are      *)
(* left out of the rows.                                                   *)
(***************************************************************************)
EXTENDS Integers, Sequences, FiniteSets, TLC

VARIABLES
    inventory,   \* inventory.csv
    wasteLog,    \* waste_log.csv
    vendors,     \* vendors.csv
    categories,  \* categories.csv
    users,       \* users.csv
    reports,     \* weekly_waste_reports.csv, appended to by every archival
    archive,     \* waste_archive/: file name -> snapshot of the waste log
    now,         \* the wall clock, in ticks
    pc,          \* position of the request being handled ("idle": none)
    req,         \* the request being handled, or the last one handled
    flash,       \* the message flashed by the last handler step
    entries,     \* archive_waste_log's local `entries`
    returned,    \* what the last call or the last page request returned
    threads,     \* the calls in progress on the threads of the server
    inventoryReports  \* weekly_inventory_reports.csv

vars == <<inventory, wasteLog, vendors, categories, users, reports, archive,
          now, pc, req, flash, entries, returned, threads,
          inventoryReports>>

\* the state that the handlers of the collections leave as it is
aside == <<users, returned, threads, inventoryReports>>

\* `returned` names the call and holds its value
NoCall == [call |-> "none", value |-> <<>>]

\* the request threads of the server, and a thread that is in no call
Threads == {1, 2}
NoThread ==
    [pc |-> "idle", call |-> "none", name |-> "", number |-> 0,
     read |-> <<>>, result |-> FALSE]
NoThreads == [t \in Threads |-> NoThread]
Return(call, value) == [call |-> call, value |-> value]

----------------------------------------------------------------------------
(* Bounds of the model *)

\* the clock's resolution: ticks per day
TicksPerDay == 2
\* the clock stops after this many days
MaxDays == 8
\* cap on the rows of the live waste log
MaxLog == 2
\* cap on the archivals in the behaviours of the archival cycle
MaxReports == 1
\* cap on the rows of the weekly report log
MaxReportRows == 2
\* cap on the rows of inventory.csv
MaxItems == 2
\* cap on the rows of vendors.csv
MaxVendors == 3
\* cap on the rows of categories.csv
MaxCategories == 3
\* cap on the stock that taking back a waste entry may bring an item to
MaxQuantity == 4
\* cap on the rows of weekly_inventory_reports.csv
MaxInventoryReports == 3

(* Program constants *)

\* utils.py:667  (datetime.now() - oldest_entry_date).days >= 7
ArchiveDays == 7
\* utils.py:812  (current_date - last_date).days >= 7
ReportDays == 7

----------------------------------------------------------------------------
(* Generic helpers *)

Max(a, b) == IF a >= b THEN a ELSE b

Range(s) == {s[i] : i \in 1..Len(s)}

\* index of the first row named `name`, 0 when there is none
RECURSIVE FirstIndex(_, _, _)
FirstIndex(s, name, i) ==
    IF i > Len(s) THEN 0
    ELSE IF s[i].name = name THEN i
         ELSE FirstIndex(s, name, i + 1)

----------------------------------------------------------------------------
(* Files and the text of their numeric columns *)

\* a CSV file on disk with these rows under its header, and a file that is
\* not on disk
File(rows) == [exists |-> TRUE, rows |-> rows]
Missing == [exists |-> FALSE, rows |-> <<>>]

\* the text of a numeric column is <<form, number>>: str() of a float
\* ("2.0", "-2.0"), str() of an int ("2"), or text that is no number ("abc")
str_float(x) == <<"float", x>>
str_int(n) == <<"int", n>>
NotANumber == <<"text", 0>>

\* float(text) raises ValueError unless the text is a number, int(text)
\* unless it is an integer literal: int("2.0") raises
float_raises(text) == text[1] \notin {"float", "int"}
float(text) == text[2]
int_raises(text) == text[1] # "int"
int(text) == text[2]

----------------------------------------------------------------------------
(* Users and permissions *)

\* the default rows of users.csv, with one staff account added
DefaultUsers ==
    << [username |-> "admin", role |-> "admin"],
       [username |-> "sam",   role |-> "staff"] >>

read_users == IF users.exists THEN users.rows ELSE <<>>

\* the users that are logged in
Usernames == {"admin", "sam"}

\* get_user: index of the first user of that name, 0 for None
RECURSIVE FirstUser(_, _, _)
FirstUser(rows, username, i) ==
    IF i > Len(rows) THEN 0
    ELSE IF rows[i].username = username THEN i
         ELSE FirstUser(rows, username, i + 1)

get_user(username) == FirstUser(read_users, username, 1)

\* a faulty variant: a tag granted to the staff that no route asks for
permissions_granting_audit(role) ==
    CASE role = "admin"   -> {"view", "edit", "delete", "import", "export",
                              "manage_users"}
      [] role = "manager" -> {"view", "edit", "import", "export",
                              "approve_orders"}
      [] role = "staff"   -> {"view", "record_counts", "log_waste", "audit"}
      [] OTHER            -> {}

\* a faulty variant: permissions.get(self.role, permissions['admin'])
permissions_defaulting_to_admin(role) ==
    CASE role = "manager" -> {"view", "edit", "import", "export",
                              "approve_orders"}
      [] role = "staff"   -> {"view", "record_counts", "log_waste"}
      [] OTHER            -> {"view", "edit", "delete", "import", "export",
                              "manage_users"}

permissions(role) ==
    CASE role = "admin"   -> {"view", "edit", "delete", "import", "export",
                              "manage_users"}
      [] role = "manager" -> {"view", "edit", "import", "export",
                              "approve_orders"}
      [] role = "staff"   -> {"view", "record_counts", "log_waste"}
      [] OTHER            -> {}

has_permission(user, permission) == permission \in permissions(user.role)

\* require_permission: the user of the session exists and has the permission
require_permission(username, permission) ==
    LET i == get_user(username)
    IN  i # 0 /\ has_permission(read_users[i], permission)

----------------------------------------------------------------------------
(* Input domains of the requests *)

ItemNames == {"Flour", "Milk"}
VendorNames == {"Sams Club", "Costco", "HPM"}
CategoryNames == {"General", "Produce", "Dairy"}
\* form values for an item's comma-separated vendor list, split at the commas
VendorLists == {<<>>, <<"Costco">>, <<"Costco", "HPM">>, <<"HPM">>}

----------------------------------------------------------------------------
(* models.py *)

\* InventoryItem.get_vendors: the non-empty segments of the vendor list
get_vendors(item) == SelectSeq(item.vendors, LAMBDA v : v # "")

\* WasteEntry.waste_value
waste_value(entry) == entry.quantity * entry.unit_cost

----------------------------------------------------------------------------
(* utils.py: inventory *)

\* a faulty variant: the unit cost read the way read_waste_log reads it, the
\* leading digits and dots only, so that a negative cost reads as 0.0
read_inventory_cleaning_unit_cost ==
    IF inventory.exists
    THEN [i \in 1..Len(inventory.rows) |->
            [inventory.rows[i] EXCEPT
                !.quantity = float(@),
                !.par_level = int(@),
                !.unit_cost = IF float(@) < 0 THEN 0 ELSE float(@)]]
    ELSE <<>>

\* read_inventory: quantity=float(...), par_level=int(...),
\* unit_cost=float(...) of every row; no row for a missing file
read_inventory ==
    IF inventory.exists
    THEN [i \in 1..Len(inventory.rows) |->
            [inventory.rows[i] EXCEPT !.quantity = float(@),
                                      !.par_level = int(@),
                                      !.unit_cost = float(@)]]
    ELSE <<>>

\* write_inventory: csv.DictWriter writes str() of every value; the file is
\* created when it is missing.  (A quantity that is an int in memory, an
\* imported one or the 0 of max(0, ...), is written without its fraction;
\* float() reads both texts as the same number.)
write_inventory(items) ==
    File([i \in 1..Len(items) |->
            [items[i] EXCEPT !.quantity = str_float(@),
                             !.par_level = str_int(@),
                             !.unit_cost = str_float(@)]])

\* get_inventory_item: index of the first item of that name, 0 for None
get_inventory_item(name) == FirstIndex(read_inventory, name, 1)

\* update_inventory_item: the first item of that name is replaced
update_inventory_item(items, name, updated_item) ==
    LET i == FirstIndex(items, name, 1)
    IN  IF i = 0 THEN [ok |-> FALSE, rows |-> items]
        ELSE [ok |-> TRUE, rows |-> [items EXCEPT ![i] = updated_item]]

\* delete_inventory_item: every item of that name is removed
delete_inventory_item(items, name) ==
    LET kept == SelectSeq(items, LAMBDA it : it.name # name)
    IN  IF Len(kept) < Len(items) THEN [ok |-> TRUE, rows |-> kept]
        ELSE [ok |-> FALSE, rows |-> items]

----------------------------------------------------------------------------
(* utils.py: vendors *)

read_vendors == IF vendors.exists THEN vendors.rows ELSE <<>>

write_vendors(rows) == File(rows)

\* get_vendor: index of the first vendor of that name, 0 for None
get_vendor(name) == FirstIndex(read_vendors, name, 1)

add_vendor(rows, vendor) ==
    IF \E i \in 1..Len(rows) : rows[i].name = vendor.name
    THEN [ok |-> FALSE, rows |-> rows]
    ELSE [ok |-> TRUE, rows |-> Append(rows, vendor)]

update_vendor(rows, old_name, updated_vendor) ==
    LET i == FirstIndex(rows, old_name, 1)
    IN  IF i = 0 THEN [ok |-> FALSE, rows |-> rows]
        ELSE [ok |-> TRUE, rows |-> [rows EXCEPT ![i] = updated_vendor]]

delete_vendor(rows, name) ==
    [ok |-> TRUE, rows |-> SelectSeq(rows, LAMBDA v : v.name # name)]

is_vendor_in_use(vendor_name) ==
    \E i \in 1..Len(read_inventory) :
        vendor_name \in Range(get_vendors(read_inventory[i]))

----------------------------------------------------------------------------
(* utils.py: categories *)

\* models.py: DEFAULT_CATEGORIES
DEFAULT_CATEGORIES ==
    << "General", "Produce", "Meat & Poultry", "Dairy", "Pantry", "Beverages",
       "Frozen", "Cleaning Supplies", "Frozen Bulk Items", "Frozen Beef Meals",
       "Frozen Chicken Meals", "Frozen Turkey Meals", "Frozen Seafood" >>

\* a faulty variant: no category for a missing file
read_categories_empty_when_missing ==
    IF categories.exists THEN categories.rows ELSE <<>>

\* read_categories: the default categories for a missing file
read_categories ==
    IF categories.exists THEN categories.rows
    ELSE [i \in 1..Len(DEFAULT_CATEGORIES) |->
            [name |-> DEFAULT_CATEGORIES[i]]]

write_categories(rows) == File(rows)

add_category(rows, category) ==
    IF \E i \in 1..Len(rows) : rows[i].name = category.name
    THEN [ok |-> FALSE, rows |-> rows]
    ELSE [ok |-> TRUE, rows |-> Append(rows, category)]

update_category(rows, old_name, updated_category) ==
    LET i == FirstIndex(rows, old_name, 1)
    IN  IF i = 0 THEN [ok |-> FALSE, rows |-> rows]
        ELSE [ok |-> TRUE, rows |-> [rows EXCEPT ![i] = updated_category]]

delete_category(rows, name) ==
    [ok |-> TRUE, rows |-> SelectSeq(rows, LAMBDA c : c.name # name)]

\* a faulty variant: no category is ever in use
category_never_in_use(category_name) == FALSE

is_category_in_use(category_name) ==
    \E i \in 1..Len(read_inventory) :
        read_inventory[i].category = category_name

----------------------------------------------------------------------------
(* utils.py: waste log *)

\* a `date` column is a string: a timestamp strptime accepts (valid, at the
\* tick `at`) or text it rejects
GoodDate(t) == [valid |-> TRUE, at |-> t]
BadDate == [valid |-> FALSE, at |-> 0]

\* float of what re.match(r'^[\d.]+', unit_cost) matches, 0.0 when it matches
\* nothing: a leading minus sign and text without digits match nothing
UnitCostClean(unit_cost) ==
    IF float_raises(unit_cost) \/ float(unit_cost) < 0 THEN 0
    ELSE float(unit_cost)

\* the loop of read_waste_log over the rows of a waste log file: a row whose
\* quantity float() rejects is skipped, the unit cost of the others is
\* cleaned
WasteRows(rows) ==
    LET good == SelectSeq(rows, LAMBDA row : ~float_raises(row.quantity))
    IN  [i \in 1..Len(good) |->
            [good[i] EXCEPT !.quantity = float(@),
                            !.unit_cost = UnitCostClean(@)]]

\* read_waste_log: no entry for a missing file
read_waste_log == IF wasteLog.exists THEN WasteRows(wasteLog.rows) ELSE <<>>

\* write_waste_log: csv.DictWriter writes str() of every value
write_waste_log(rows) ==
    File([i \in 1..Len(rows) |->
            [rows[i] EXCEPT !.quantity = str_float(@),
                            !.unit_cost = str_float(@)]])

\* add_waste_entry: read all, append, write all
add_waste_entry(entry) == write_waste_log(Append(read_waste_log, entry))

\* update_waste_entry: entry_index counts from 0
update_waste_entry(entry_index, updated_entry) ==
    LET rows == read_waste_log
    IN  IF 0 <= entry_index /\ entry_index < Len(rows)
        THEN [ok |-> TRUE,
              file |-> write_waste_log(
                         [rows EXCEPT ![entry_index + 1] = updated_entry])]
        ELSE [ok |-> FALSE, file |-> wasteLog]

\* delete_waste_entry: entries.pop(entry_index)
delete_waste_entry(entry_index) ==
    LET rows == read_waste_log
    IN  IF 0 <= entry_index /\ entry_index < Len(rows)
        THEN [ok |-> TRUE,
              file |-> write_waste_log(
                         [i \in 1..(Len(rows) - 1) |->
                            IF i <= entry_index THEN rows[i] ELSE rows[i + 1]])]
        ELSE [ok |-> FALSE, file |-> wasteLog]

\* get_waste_entry: index into read_waste_log, 0 for None
get_waste_entry(entry_index) ==
    IF 0 <= entry_index /\ entry_index < Len(read_waste_log)
    THEN entry_index + 1 ELSE 0

----------------------------------------------------------------------------
(* utils.py: waste-log archival *)

\* strftime('%Y-%m-%d'): the calendar day of a tick
Day(t) == t \div TicksPerDay

RECURSIVE MinDate(_)
MinDate(rows) ==
    IF Len(rows) = 1 THEN rows[1].date.at
    ELSE LET m == MinDate(Tail(rows))
         IN  IF rows[1].date.at <= m THEN rows[1].date.at ELSE m

\* a faulty variant: archival only once the oldest entry is more than 7 days
\* old
should_archive_after_seven_days ==
    LET rows == read_waste_log
    IN  IF rows = <<>> THEN FALSE
        ELSE IF \E i \in 1..Len(rows) : ~rows[i].date.valid THEN FALSE
        ELSE ((now - MinDate(rows)) \div TicksPerDay) > ArchiveDays

\* a faulty variant: rows whose date does not parse are passed over and the
\* oldest of the other rows decides
should_archive_skipping_bad_dates ==
    LET rows == SelectSeq(read_waste_log, LAMBDA e : e.date.valid)
    IN  IF rows = <<>> THEN FALSE
        ELSE ((now - MinDate(rows)) \div TicksPerDay) >= ArchiveDays

\* should_archive_waste_log: False for an empty log and when strptime raises;
\* timedelta.days is the floor of the difference in days
should_archive_waste_log ==
    LET rows == read_waste_log
    IN  IF rows = <<>> THEN FALSE
        ELSE IF \E i \in 1..Len(rows) : ~rows[i].date.valid THEN FALSE
        ELSE ((now - MinDate(rows)) \div TicksPerDay) >= ArchiveDays

\* a faulty variant: the unit costs summed, the quantities forgotten
RECURSIVE SumUnitCosts(_)
SumUnitCosts(rows) ==
    IF rows = <<>> THEN 0
    ELSE Head(rows).unit_cost + SumUnitCosts(Tail(rows))

RECURSIVE SumValues(_)
SumValues(rows) ==
    IF rows = <<>> THEN 0
    ELSE waste_value(Head(rows)) + SumValues(Tail(rows))

\* inventory_items = {item.name: item for item in read_inventory()}: of two
\* items of one name the later one stays in the dict; 0 when there is none
RECURSIVE LastIndex(_, _, _)
LastIndex(s, name, i) ==
    IF i = 0 THEN 0
    ELSE IF s[i].name = name THEN i
         ELSE LastIndex(s, name, i - 1)

\* the category generate_weekly_report files an entry under
CategoryOf(entry) ==
    LET items == read_inventory
        i == LastIndex(items, entry.item_name, Len(items))
    IN  IF i = 0 THEN "Unknown" ELSE items[i].category

\* the waste values of the entries whose key is k; keys[i] is the key of
\* rows[i]
RECURSIVE SumByKey(_, _, _)
SumByKey(rows, keys, k) ==
    IF rows = <<>> THEN 0
    ELSE (IF Head(keys) = k THEN waste_value(Head(rows)) ELSE 0)
         + SumByKey(Tail(rows), Tail(keys), k)

\* a faulty variant: by_x[key] = entry.waste_value(), the value of the last
\* entry of the key instead of the sum
GroupByOverwriting(rows, keys) ==
    [k \in Range(keys) |->
        LET last == CHOOSE i \in 1..Len(keys) :
                        /\ keys[i] = k
                        /\ \A j \in (i + 1)..Len(keys) : keys[j] # k
        IN  waste_value(rows[last])]

\* by_x[key] = by_x.get(key, 0) + entry.waste_value(), over the entries
GroupBy(rows, keys) ==
    [k \in Range(keys) |-> SumByKey(rows, keys, k)]

generate_weekly_report(rows, week_start, week_end) ==
    [week_start    |-> week_start,
     week_end      |-> week_end,
     total_entries |-> Len(rows),
     total_value   |-> SumValues(rows),
     by_category   |-> GroupBy(rows, [i \in 1..Len(rows) |->
                                        CategoryOf(rows[i])]),
     by_reason     |-> GroupBy(rows, [i \in 1..Len(rows) |-> rows[i].reason]),
     by_item       |-> GroupBy(rows, [i \in 1..Len(rows) |->
                                        rows[i].item_name])]

\* save_weekly_report: one row appended to the rows of the report log, with
\* str() of the report's numbers
save_weekly_report(rows, report) ==
    Append(rows, [report EXCEPT !.total_entries = str_int(@),
                                !.total_value = str_float(@)])

\* the loop of read_weekly_reports: the first row whose total_entries int()
\* rejects or whose total_value float() rejects raises, and the reports read
\* so far are returned
RECURSIVE ReportRows(_)
ReportRows(rows) ==
    IF rows = <<>> THEN <<>>
    ELSE IF int_raises(Head(rows).total_entries)
            \/ float_raises(Head(rows).total_value)
    THEN <<>>
    ELSE <<[Head(rows) EXCEPT !.total_entries = int(@),
                              !.total_value = float(@)]>>
         \o ReportRows(Tail(rows))

read_weekly_reports == ReportRows(reports)

\* waste_log_{week_start:%Y%m%d}_{week_end:%Y%m%d}.csv
archive_filename(t) == <<Day(t) - ArchiveDays, Day(t)>>

\* shutil.copy2(WASTE_LOG_FILE, archive_path): an existing file is overwritten
copy2(dir, filename, content) ==
    [f \in DOMAIN dir \cup {filename} |->
        IF f = filename THEN content ELSE dir[f]]

----------------------------------------------------------------------------
(* routes.py: what every handler shares *)

\* no request is being handled
NoRequest == [op |-> "none"]

\* a handler that runs to its response in one step
Handled(message) ==
    /\ pc = "idle"
    /\ flash' = <<message>>
    /\ pc' = "idle"
    /\ UNCHANGED <<now, entries, req>>
    /\ UNCHANGED aside

\* require_permission: the redirect of a user without the permission
Denied ==
    /\ Handled("no_permission")
    /\ UNCHANGED <<inventory, wasteLog, vendors, categories, reports, archive>>

----------------------------------------------------------------------------
(* routes.py: inventory *)

Item(name, quantity, par_level, category, unit_cost, item_vendors) ==
    [vendors |-> item_vendors, name |-> name, quantity |-> quantity,
     unit_cost |-> unit_cost, category |-> category, par_level |-> par_level]

\* the numeric fields of the posted forms (quantity, par_level, unit_cost,
\* count) are text, parsed by float() and int(); a ValueError that no handler
\* catches ends the request with the error page
add_item(u, name, quantity, par_level, category, unit_cost, item_vendors) ==
    LET new_item == Item(name, float(quantity), int(par_level), category,
                         float(unit_cost), item_vendors)
    IN  /\ UNCHANGED <<wasteLog, vendors, categories, reports, archive>>
        /\ IF ~require_permission(u, "edit")
           THEN Denied
           ELSE IF float_raises(quantity) \/ int_raises(par_level)
                   \/ float_raises(unit_cost)
           THEN Handled("server_error") /\ UNCHANGED inventory
           ELSE IF get_inventory_item(name) # 0
           THEN Handled("item_exists") /\ UNCHANGED inventory
           ELSE /\ Len(read_inventory) < MaxItems
                /\ inventory' = write_inventory(Append(read_inventory, new_item))
                /\ Handled("item_added")

edit_item(u, item_name, new_name, quantity, par_level, category, unit_cost, item_vendors) ==
    LET item == Item(new_name, float(quantity), int(par_level), category,
                     float(unit_cost), item_vendors)
    IN  /\ UNCHANGED <<wasteLog, vendors, categories, reports, archive>>
        /\ IF ~require_permission(u, "edit")
           THEN Denied
           ELSE IF get_inventory_item(item_name) = 0
           THEN Handled("item_not_found") /\ UNCHANGED inventory
           ELSE IF new_name # item_name /\ get_inventory_item(new_name) # 0
           THEN Handled("item_exists") /\ UNCHANGED inventory
           ELSE IF float_raises(quantity) \/ int_raises(par_level)
                   \/ float_raises(unit_cost)
           THEN Handled("server_error") /\ UNCHANGED inventory
           ELSE IF new_name # item_name
           THEN LET d == delete_inventory_item(read_inventory, item_name)
                IN  IF d.ok
                    THEN /\ inventory' = write_inventory(Append(d.rows, item))
                         /\ Handled("item_renamed")
                    ELSE /\ UNCHANGED inventory
                         /\ Handled("item_rename_error")
           ELSE LET w == update_inventory_item(read_inventory, item_name, item)
                IN  /\ inventory' = IF w.ok THEN write_inventory(w.rows)
                                    ELSE inventory
                    /\ Handled(IF w.ok THEN "item_updated"
                                  ELSE "item_update_error")

delete_item(u, item_name) ==
    LET d == delete_inventory_item(read_inventory, item_name)
    IN  /\ UNCHANGED <<wasteLog, vendors, categories, reports, archive>>
        /\ IF ~require_permission(u, "delete")
           THEN Denied
           ELSE /\ inventory' = IF d.ok THEN write_inventory(d.rows)
                                ELSE inventory
                /\ Handled(IF d.ok THEN "item_deleted"
                              ELSE "item_delete_error")

\* update_count is behind require_login only and tests the permissions
\* itself; user.has_permission raises when get_user returns None
update_count(u, item_name, count) ==
    LET k == get_user(u)
        i == get_inventory_item(item_name)
    IN  /\ UNCHANGED <<wasteLog, vendors, categories, reports, archive>>
        /\ IF k = 0
           THEN Handled("server_error") /\ UNCHANGED inventory
           ELSE IF ~(has_permission(read_users[k], "record_counts")
                     \/ has_permission(read_users[k], "edit"))
           THEN Denied
           ELSE IF i = 0
           THEN Handled("item_not_found") /\ UNCHANGED inventory
           ELSE IF float_raises(count)
           THEN Handled("server_error") /\ UNCHANGED inventory
           ELSE LET item == [read_inventory[i] EXCEPT
                                !.quantity = float(count)]
                    w == update_inventory_item(read_inventory, item_name, item)
                IN  /\ inventory' = IF w.ok THEN write_inventory(w.rows)
                                    ELSE inventory
                    /\ Handled(IF w.ok THEN "count_updated"
                                  ELSE "count_update_error")

\* the columns of the export, and of a well-formed upload
Header ==
    <<"name", "unit", "quantity", "par_level", "category", "unit_cost",
      "vendors", "last_updated">>

\* the position of a column in a header line, 0 when the header lacks it
RECURSIVE Column(_, _, _)
Column(header, field, i) ==
    IF i > Len(header) THEN 0
    ELSE IF header[i] = field THEN i
         ELSE Column(header, field, i + 1)

\* the text of an item's vendors column, cut at its commas: one empty piece
\* for an item without vendors
VendorsText(item_vendors) ==
    IF item_vendors = <<>> THEN <<"">> ELSE item_vendors

\* export_inventory_csv: the lines of the text, each cut at its commas as
\* split(',') cuts it; "" for an empty inventory.  The f-string writes
\* str() of the numbers read_inventory returned, and writes the vendors of
\* an item between the same commas that separate the columns.  (The unit
\* label and the time stamp are opaque texts.)
export_inventory_csv ==
    LET items == read_inventory
    IN  IF items = <<>> THEN <<>>
        ELSE <<Header>> \o
             [i \in 1..Len(items) |->
                <<items[i].name, "each", str_float(items[i].quantity),
                  str_int(items[i].par_level), items[i].category,
                  str_float(items[i].unit_cost)>>
                \o VendorsText(items[i].vendors) \o <<"stamp">>]

\* row_data.get(field, default) of a data line
Get(header, values, field, default) ==
    IF Column(header, field, 1) = 0 THEN default
    ELSE values[Column(header, field, 1)]

\* a data line import_inventory_csv returns False for: the number of values
\* is not the number of columns, or int() rejects the quantity or the par
\* level, or float() rejects the unit cost
BadLine(header, values) ==
    \/ Len(values) # Len(header)
    \/ int_raises(Get(header, values, "quantity", NotANumber))
    \/ int_raises(Get(header, values, "par_level", NotANumber))
    \/ float_raises(Get(header, values, "unit_cost", str_float(0)))

\* the InventoryItem of a data line; its vendors column is one piece
ItemOfLine(header, values) ==
    LET item_vendors == Get(header, values, "vendors", "")
    IN  Item(Get(header, values, "name", ""),
             int(Get(header, values, "quantity", NotANumber)),
             int(Get(header, values, "par_level", NotANumber)),
             Get(header, values, "category", "General"),
             float(Get(header, values, "unit_cost", str_float(0))),
             IF item_vendors = "" THEN <<>> ELSE <<item_vendors>>)

\* import_inventory_csv: csv_data is the sequence of the lines of the text,
\* the header first; the inventory is written only when every line is good
import_inventory_csv(csv_data) ==
    IF Len(csv_data) < 2
    THEN [ok |-> FALSE, rows |-> <<>>]
    ELSE IF \E field \in {"name", "unit", "quantity", "par_level"} :
               Column(csv_data[1], field, 1) = 0
    THEN [ok |-> FALSE, rows |-> <<>>]
    ELSE IF \E i \in 2..Len(csv_data) : BadLine(csv_data[1], csv_data[i])
    THEN [ok |-> FALSE, rows |-> <<>>]
    ELSE [ok |-> TRUE,
          rows |-> [i \in 1..(Len(csv_data) - 1) |->
                      ItemOfLine(csv_data[1], csv_data[i + 1])]]

\* a faulty variant: the items parsed before the first bad line are written
\* although the import fails
import_export_writing_good_rows(u, csv_data) ==
    LET m == import_inventory_csv(csv_data)
        good == IF Len(csv_data) >= 2 /\ ~BadLine(csv_data[1], csv_data[2])
                THEN <<ItemOfLine(csv_data[1], csv_data[2])>> ELSE <<>>
    IN  /\ UNCHANGED <<wasteLog, vendors, categories, reports, archive>>
        /\ IF ~require_permission(u, "import")
           THEN Denied
           ELSE /\ inventory' = IF m.ok THEN write_inventory(m.rows)
                                ELSE write_inventory(good)
                /\ Handled(IF m.ok THEN "imported" ELSE "import_failed")

import_export(u, csv_data) ==
    LET m == import_inventory_csv(csv_data)
    IN  /\ UNCHANGED <<wasteLog, vendors, categories, reports, archive>>
        /\ IF ~require_permission(u, "import")
           THEN Denied
           ELSE /\ inventory' = IF m.ok THEN write_inventory(m.rows)
                                ELSE inventory
                /\ Handled(IF m.ok THEN "imported" ELSE "import_failed")

\* export_csv: the response is the text of the export
export_csv(u) ==
    /\ pc = "idle"
    /\ IF ~require_permission(u, "export")
       THEN /\ flash' = <<"no_permission">>
            /\ returned' = Return("redirect", <<>>)
       ELSE /\ flash' = <<>>
            /\ returned' = Return("export_csv", export_inventory_csv)
    /\ UNCHANGED <<inventory, wasteLog, vendors, categories, users, reports,
                   archive, now, pc, req, entries, threads,
                   inventoryReports>>

----------------------------------------------------------------------------
(* routes.py: vendors *)

Vendor(name, exclude_from_shopping_list) ==
    [name |-> name, exclude |-> exclude_from_shopping_list]

\* vendors(), action == 'add'
vendors_add(u, name, exclude) ==
    LET a == add_vendor(read_vendors, Vendor(name, exclude))
    IN  /\ UNCHANGED <<inventory, wasteLog, categories, reports, archive>>
        /\ IF ~require_permission(u, "edit")
           THEN Denied
           ELSE IF name = ""
           THEN Handled("vendor_name_required") /\ UNCHANGED vendors
           ELSE /\ a.ok => Len(read_vendors) < MaxVendors
                /\ vendors' = IF a.ok THEN write_vendors(a.rows) ELSE vendors
                /\ Handled(IF a.ok THEN "vendor_added" ELSE "vendor_exists")

\* vendors(), action == 'edit'
vendors_edit(u, old_name, new_name, exclude) ==
    LET w == update_vendor(read_vendors, old_name, Vendor(new_name, exclude))
    IN  /\ UNCHANGED <<inventory, wasteLog, categories, reports, archive>>
        /\ IF ~require_permission(u, "edit")
           THEN Denied
           ELSE IF old_name = "" \/ new_name = ""
           THEN Handled("vendor_name_required") /\ UNCHANGED vendors
           ELSE /\ vendors' = IF w.ok THEN write_vendors(w.rows) ELSE vendors
                /\ Handled(IF w.ok THEN "vendor_updated"
                              ELSE "vendor_not_found")

\* vendors(), action == 'delete'
vendors_delete(u, vendor_name) ==
    LET d == delete_vendor(read_vendors, vendor_name)
    IN  /\ UNCHANGED <<inventory, wasteLog, categories, reports, archive>>
        /\ IF ~require_permission(u, "edit")
           THEN Denied
           ELSE IF vendor_name = ""
           THEN Handled("vendor_name_required") /\ UNCHANGED vendors
           ELSE IF is_vendor_in_use(vendor_name)
           THEN Handled("vendor_in_use") /\ UNCHANGED vendors
           ELSE /\ vendors' = write_vendors(d.rows)
                /\ Handled(IF d.ok THEN "vendor_deleted"
                              ELSE "vendor_delete_error")

\* add_vendor_route: /add_vendor
add_vendor_route(u, name) ==
    LET a == add_vendor(read_vendors, Vendor(name, FALSE))
    IN  /\ UNCHANGED <<inventory, wasteLog, categories, reports, archive>>
        /\ IF ~require_permission(u, "edit")
           THEN Denied
           ELSE IF get_vendor(name) # 0
           THEN Handled("vendor_exists") /\ UNCHANGED vendors
           ELSE /\ a.ok => Len(read_vendors) < MaxVendors
                /\ vendors' = IF a.ok THEN write_vendors(a.rows) ELSE vendors
                /\ Handled(IF a.ok THEN "vendor_added"
                              ELSE "vendor_add_error")

\* edit_vendor: /edit_vendor/<vendor_name> rewrites the contact fields of the
\* first vendor of that name; its name and its exclude flag stay
edit_vendor(u, vendor_name) ==
    LET i == get_vendor(vendor_name)
    IN  /\ UNCHANGED <<inventory, wasteLog, categories, reports, archive>>
        /\ IF ~require_permission(u, "edit")
           THEN Denied
           ELSE IF i = 0
           THEN Handled("vendor_not_found") /\ UNCHANGED vendors
           ELSE /\ vendors' = write_vendors([read_vendors EXCEPT
                                           ![i] = read_vendors[i]])
                /\ Handled("vendor_updated")

----------------------------------------------------------------------------
(* routes.py: categories *)

Category(name) == [name |-> name]

\* categories(), action == 'add'
categories_add(u, name) ==
    LET a == add_category(read_categories, Category(name))
    IN  /\ UNCHANGED <<inventory, wasteLog, vendors, reports, archive>>
        /\ IF ~require_permission(u, "edit")
           THEN Denied
           ELSE IF name = ""
           THEN Handled("category_name_required") /\ UNCHANGED categories
           ELSE /\ a.ok => Len(read_categories) < MaxCategories
                /\ categories' = IF a.ok THEN write_categories(a.rows)
                                 ELSE categories
                /\ Handled(IF a.ok THEN "category_added"
                              ELSE "category_exists")

\* categories(), action == 'edit'
categories_edit(u, old_name, new_name) ==
    LET w == update_category(read_categories, old_name, Category(new_name))
    IN  /\ UNCHANGED <<inventory, wasteLog, vendors, reports, archive>>
        /\ IF ~require_permission(u, "edit")
           THEN Denied
           ELSE IF old_name = "" \/ new_name = ""
           THEN Handled("category_name_required") /\ UNCHANGED categories
           ELSE /\ categories' = IF w.ok THEN write_categories(w.rows)
                                 ELSE categories
                /\ Handled(IF w.ok THEN "category_updated"
                              ELSE "category_not_found")

\* categories(), action == 'delete'
categories_delete(u, category_name) ==
    LET d == delete_category(read_categories, category_name)
    IN  /\ UNCHANGED <<inventory, wasteLog, vendors, reports, archive>>
        /\ IF ~require_permission(u, "edit")
           THEN Denied
           ELSE IF category_name = ""
           THEN Handled("category_name_required") /\ UNCHANGED categories
           ELSE IF is_category_in_use(category_name)
           THEN Handled("category_in_use") /\ UNCHANGED categories
           ELSE /\ categories' = write_categories(d.rows)
                /\ Handled(IF d.ok THEN "category_deleted"
                              ELSE "category_delete_error")

----------------------------------------------------------------------------
(* routes.py: the waste log page.  The handler runs in steps: the archival *)
(* check, the three file operations of an archival when one is due, then   *)
(* the body of the request.                                                *)

WasteForm(action, user, item_name, quantity, reason, entry_index) ==
    [op |-> action, quantity |-> quantity, entry_index |-> entry_index,
     item_name |-> item_name, reason |-> reason, user |-> user]

WasteEntry(item_name, quantity, reason, date, logged_by, unit_cost) ==
    [quantity |-> quantity, unit_cost |-> unit_cost, date |-> date,
     item_name |-> item_name, reason |-> reason, logged_by |-> logged_by]

\* check_and_archive_if_needed, at the top of waste_log()
waste_log(action, user, item_name, quantity, reason, entry_index) ==
    /\ pc = "idle"
    /\ action = "add" =>
          (Len(read_waste_log) < MaxLog \/ should_archive_waste_log)
    /\ should_archive_waste_log => Len(reports) < MaxReportRows
    /\ req' = WasteForm(action, user, item_name, quantity, reason,
                        entry_index)
    /\ flash' = <<>>
    /\ pc' = IF should_archive_waste_log THEN "archive_waste_log"
             ELSE "waste_log_body"
    /\ UNCHANGED <<inventory, wasteLog, vendors, categories, reports, archive,
                   now, entries>>
    /\ UNCHANGED aside

\* where archive_waste_log returns to
ArchiveReturn ==
    IF req.op = "force_archive"
    THEN /\ pc' = "idle"
         /\ req' = NoRequest
         /\ flash' = <<"archived">>
    ELSE /\ pc' = "waste_log_body"
         /\ req' = req
         /\ flash' = <<"archived_auto">>

\* archive_waste_log, first part: read the entries, generate the weekly
\* report and append it to the report log
archive_waste_log_report ==
    /\ pc = "archive_waste_log"
    /\ entries' = read_waste_log
    /\ IF entries' = <<>>
       THEN /\ ArchiveReturn
            /\ UNCHANGED reports
       ELSE /\ reports' = save_weekly_report(reports,
                            generate_weekly_report(entries',
                                Day(now) - ArchiveDays, Day(now)))
            /\ pc' = "archive_copy"
            /\ UNCHANGED <<req, flash>>
    /\ UNCHANGED <<inventory, wasteLog, vendors, categories, archive, now>>
    /\ UNCHANGED aside

\* archive_waste_log, second part: copy the live log into the archive
archive_waste_log_copy ==
    /\ pc = "archive_copy"
    /\ archive' = copy2(archive, archive_filename(now), wasteLog.rows)
    /\ pc' = "archive_clear"
    /\ UNCHANGED <<inventory, wasteLog, vendors, categories, reports, now,
                   req, flash, entries>>
    /\ UNCHANGED aside

\* a faulty variant: the rows written since the entries were read are kept
archive_waste_log_clear_keeping_new_rows ==
    /\ pc = "archive_clear"
    /\ wasteLog' = File(SubSeq(wasteLog.rows, Len(entries) + 1,
                               Len(wasteLog.rows)))
    /\ ArchiveReturn
    /\ UNCHANGED <<inventory, vendors, categories, reports, archive, now,
                   entries>>
    /\ UNCHANGED aside

\* archive_waste_log, last part: rewrite the live log with its header only
archive_waste_log_clear ==
    /\ pc = "archive_clear"
    /\ wasteLog' = File(<<>>)
    /\ ArchiveReturn
    /\ UNCHANGED <<inventory, vendors, categories, reports, archive, now,
                   entries>>
    /\ UNCHANGED aside

\* a faulty variant: the stock after a decrement with no floor at zero
DecrementUnclamped(item, quantity) ==
    [item EXCEPT !.quantity = item.quantity - quantity]

\* the stock after a decrement: max(0, item.quantity - quantity)
Decrement(item, quantity) ==
    [item EXCEPT !.quantity = Max(0, item.quantity - quantity)]

\* the stock after a waste entry is taken back: item.quantity += quantity
Restore(rows, item_name, quantity) ==
    LET j == FirstIndex(rows, item_name, 1)
    IN  IF j = 0 THEN rows
        ELSE update_inventory_item(rows, item_name,
                 [rows[j] EXCEPT !.quantity = @ + quantity]).rows

\* action == 'add'; float() of the quantity raises inside the try
waste_log_add ==
    LET i == get_inventory_item(req.item_name)
        unit_cost == IF i = 0 THEN 0 ELSE read_inventory[i].unit_cost
        quantity == float(req.quantity)
        entry == WasteEntry(req.item_name, quantity, req.reason,
                            GoodDate(now), req.user, unit_cost)
    IN  IF float_raises(req.quantity)
        THEN /\ flash' = Append(flash, "waste_error")
             /\ UNCHANGED <<inventory, wasteLog>>
        ELSE /\ wasteLog' = add_waste_entry(entry)
             /\ inventory' =
                  IF i = 0 THEN inventory
                  ELSE write_inventory(
                         update_inventory_item(read_inventory, req.item_name,
                             Decrement(read_inventory[i], quantity)).rows)
             /\ flash' = Append(flash, "waste_logged")

\* a faulty variant: the replacement keeps the date and the author of the
\* entry it replaces
waste_log_edit_keeping_stamp ==
    LET o == get_waste_entry(req.entry_index)
        given_back == /\ o # 0
                      /\ get_inventory_item(read_waste_log[o].item_name) # 0
        restored == IF o = 0 THEN read_inventory
                    ELSE Restore(read_inventory, read_waste_log[o].item_name,
                                 read_waste_log[o].quantity)
        i == FirstIndex(restored, req.item_name, 1)
        unit_cost == IF i = 0 THEN 0 ELSE restored[i].unit_cost
        quantity == float(req.quantity)
        updated_entry ==
            WasteEntry(req.item_name, quantity, req.reason,
                       IF o = 0 THEN GoodDate(now)
                       ELSE read_waste_log[o].date,
                       IF o = 0 THEN req.user
                       ELSE read_waste_log[o].logged_by, unit_cost)
        w == update_waste_entry(req.entry_index, updated_entry)
    IN  IF float_raises(req.quantity)
        THEN /\ flash' = Append(flash, "waste_error")
             /\ UNCHANGED <<inventory, wasteLog>>
        ELSE /\ wasteLog' = w.file
             /\ inventory' =
                  IF w.ok /\ i # 0
                  THEN write_inventory(
                         update_inventory_item(restored, req.item_name,
                             Decrement(restored[i], quantity)).rows)
                  ELSE IF given_back THEN write_inventory(restored)
                  ELSE inventory
             /\ flash' = Append(flash, IF w.ok THEN "waste_updated"
                                       ELSE "waste_update_error")

\* action == 'edit'; the form is parsed before anything is written
waste_log_edit ==
    LET o == get_waste_entry(req.entry_index)
        given_back == /\ o # 0
                      /\ get_inventory_item(read_waste_log[o].item_name) # 0
        restored == IF o = 0 THEN read_inventory
                    ELSE Restore(read_inventory, read_waste_log[o].item_name,
                                 read_waste_log[o].quantity)
        i == FirstIndex(restored, req.item_name, 1)
        unit_cost == IF i = 0 THEN 0 ELSE restored[i].unit_cost
        quantity == float(req.quantity)
        updated_entry == WasteEntry(req.item_name, quantity, req.reason,
                                    GoodDate(now), req.user, unit_cost)
        w == update_waste_entry(req.entry_index, updated_entry)
    IN  IF float_raises(req.quantity)
        THEN /\ flash' = Append(flash, "waste_error")
             /\ UNCHANGED <<inventory, wasteLog>>
        ELSE /\ wasteLog' = w.file
             /\ inventory' =
                  IF w.ok /\ i # 0
                  THEN write_inventory(
                         update_inventory_item(restored, req.item_name,
                             Decrement(restored[i], quantity)).rows)
                  ELSE IF given_back THEN write_inventory(restored)
                  ELSE inventory
             /\ flash' = Append(flash, IF w.ok THEN "waste_updated"
                                       ELSE "waste_update_error")

\* action == 'delete'
waste_log_delete ==
    LET o == get_waste_entry(req.entry_index)
        d == delete_waste_entry(req.entry_index)
    IN  IF o = 0
        THEN /\ flash' = Append(flash, "waste_not_found")
             /\ UNCHANGED <<inventory, wasteLog>>
        ELSE /\ inventory' =
                  IF get_inventory_item(read_waste_log[o].item_name) = 0
                  THEN inventory
                  ELSE write_inventory(
                         Restore(read_inventory, read_waste_log[o].item_name,
                                 read_waste_log[o].quantity))
             /\ wasteLog' = d.file
             /\ flash' = Append(flash, IF d.ok THEN "waste_deleted"
                                       ELSE "waste_delete_error")

\* waste_log() after the archival check: the POST action, or the page
waste_log_body ==
    /\ pc = "waste_log_body"
    /\ CASE req.op = "add"    -> waste_log_add
         [] req.op = "edit"   -> waste_log_edit
         [] req.op = "delete" -> waste_log_delete
         [] OTHER             -> UNCHANGED <<inventory, wasteLog, flash>>
    /\ pc' = "idle"
    /\ req' = NoRequest
    /\ UNCHANGED <<vendors, categories, reports, archive, now, entries>>
    /\ UNCHANGED aside

\* force_archive
force_archive(u) ==
    /\ pc = "idle"
    /\ UNCHANGED <<inventory, wasteLog, vendors, categories, reports, archive,
                   now, entries>>
    /\ IF ~require_permission(u, "edit")
       THEN Denied
       ELSE IF read_waste_log = <<>>
       THEN Handled("nothing_to_archive")
       ELSE /\ Len(reports) < MaxReportRows
            /\ req' = WasteForm("force_archive", u, "", str_int(0), "", 0)
            /\ flash' = <<>>
            /\ pc' = "archive_waste_log"
            /\ UNCHANGED aside

\* hpm_items(), action == 'log_waste'
hpm_items_log_waste(u, item_name, quantity, reason) ==
    LET i == get_inventory_item(item_name)
    IN  /\ UNCHANGED <<vendors, categories, reports, archive>>
        /\ IF float_raises(quantity)
           THEN Handled("waste_error") /\ UNCHANGED <<inventory, wasteLog>>
           ELSE IF i = 0 \/ "HPM" \notin Range(get_vendors(read_inventory[i]))
           THEN Handled("not_an_hpm_item") /\ UNCHANGED <<inventory, wasteLog>>
           ELSE /\ Len(read_waste_log) < MaxLog
                /\ wasteLog' = add_waste_entry(
                       WasteEntry(item_name, float(quantity), reason,
                                  GoodDate(now), u,
                                  read_inventory[i].unit_cost))
                /\ inventory' = write_inventory(
                       update_inventory_item(read_inventory, item_name,
                           Decrement(read_inventory[i], float(quantity))).rows)
                /\ Handled("waste_logged")

\* hpm_items(), action == 'update_count': behind require_login only
hpm_items_update_count(u, item_name, new_count) ==
    LET i == get_inventory_item(item_name)
    IN  /\ UNCHANGED <<wasteLog, vendors, categories, reports, archive>>
        /\ IF float_raises(new_count)
           THEN Handled("count_error") /\ UNCHANGED inventory
           ELSE IF i = 0 \/ "HPM" \notin Range(get_vendors(read_inventory[i]))
           THEN Handled("hpm_item_not_found") /\ UNCHANGED inventory
           ELSE /\ inventory' = write_inventory(
                       update_inventory_item(read_inventory, item_name,
                           [read_inventory[i] EXCEPT
                               !.quantity = float(new_count)]).rows)
                /\ Handled("count_updated")

\* the clock, between requests
Tick(d) ==
    /\ pc = "idle"
    /\ now + d <= MaxDays * TicksPerDay
    /\ now' = now + d
    /\ UNCHANGED <<inventory, wasteLog, vendors, categories, reports, archive,
                   pc, req, flash, entries>>
    /\ UNCHANGED aside

----------------------------------------------------------------------------
(* The state the handlers start from: initialize_csv_files, with all but   *)
(* two of the default vendors and of the default categories deleted.       *)

Init ==
    /\ inventory = write_inventory(<<>>)
    /\ wasteLog = write_waste_log(<<>>)
    /\ vendors = write_vendors(<<Vendor("Sams Club", FALSE),
                                 Vendor("Costco", FALSE)>>)
    /\ categories = write_categories(<<Category("General"),
                                       Category("Produce")>>)
    /\ users = File(DefaultUsers)
    /\ reports = <<>>
    /\ archive = [f \in {} |-> <<>>]
    /\ now = 0
    /\ pc = "idle"
    /\ req = NoRequest
    /\ flash = <<>>
    /\ entries = <<>>
    /\ returned = NoCall
    /\ threads = NoThreads
    /\ inventoryReports = File(<<>>)

----------------------------------------------------------------------------
(* Vendor management next to the items that list vendors *)

NextVendors ==
    \/ \E u \in Usernames, name \in VendorNames \cup {""} :
          vendors_add(u, name, FALSE)
    \/ \E u \in Usernames, old_name \in VendorNames \cup {""},
          new_name \in VendorNames :
          vendors_edit(u, old_name, new_name, FALSE)
    \/ \E u \in Usernames, name \in VendorNames \cup {""} :
          vendors_delete(u, name)
    \/ \E u \in Usernames, name \in VendorNames : add_vendor_route(u, name)
    \/ \E u \in Usernames, name \in VendorNames : edit_vendor(u, name)
    \/ \E u \in Usernames, name \in ItemNames, vs \in VendorLists :
          add_item(u, name, str_int(1), str_int(1), "General", str_int(0), vs)
    \/ \E u \in Usernames, name \in ItemNames, vs \in VendorLists :
          edit_item(u, name, name, str_int(1), str_int(1), "General",
                    str_int(0), vs)
    \/ \E u \in Usernames, name \in ItemNames : delete_item(u, name)

SpecVendors == Init /\ [][NextVendors]_vars

----------------------------------------------------------------------------
(* The waste log and its archival cycle *)

\* the waste forms posted: <<item name, quantity, reason>>; the first
\* wastes more Flour than is in stock
WasteAdds == {<<"Flour", 3, "spoiled">>, <<"Milk", 1, "expired">>}
\* how far the clock moves between two requests: the archival period, or one
\* tick less
TickSteps == {ArchiveDays * TicksPerDay - 1, ArchiveDays * TicksPerDay}

\* a stocked inventory, and a live log that is empty or holds one row whose
\* date column strptime rejects (waste_log.csv edited outside the program)
InitArchive ==
    /\ inventory = write_inventory(
                       <<Item("Flour", 2, 1, "General", 2, <<"Costco">>),
                         Item("Milk", 4, 1, "Dairy", 3, <<>>)>>)
    /\ wasteLog \in {write_waste_log(<<>>),
                      write_waste_log(<<WasteEntry("Milk", 1, "spoiled",
                                                   BadDate, "sam", 3)>>)}
    /\ vendors = write_vendors(<<Vendor("Sams Club", FALSE),
                                 Vendor("Costco", FALSE)>>)
    /\ categories = write_categories(<<Category("General"),
                                       Category("Produce")>>)
    /\ users = File(DefaultUsers)
    /\ reports = <<>>
    /\ archive = [f \in {} |-> <<>>]
    /\ now = 0
    /\ pc = "idle"
    /\ req = NoRequest
    /\ flash = <<>>
    /\ entries = <<>>
    /\ returned = NoCall
    /\ threads = NoThreads
    /\ inventoryReports = File(<<>>)

\* the report log has room for the report of one more archival
RoomForReport == Len(reports) < MaxReports

NextArchive ==
    \/ \E d \in TickSteps : Tick(d)
    \/ /\ should_archive_waste_log => RoomForReport
       /\ waste_log("get", "sam", "", str_int(0), "", 0)
    \/ \E a \in WasteAdds :
          /\ should_archive_waste_log => RoomForReport
          /\ waste_log("add", "sam", a[1], str_int(a[2]), a[3], 0)
    \/ archive_waste_log_report
    \/ archive_waste_log_copy
    \/ archive_waste_log_clear
    \/ waste_log_body
    \/ \E u \in Usernames :
          /\ (require_permission(u, "edit") /\ read_waste_log # <<>>)
                => RoomForReport
          /\ force_archive(u)

SpecArchive == InitArchive /\ [][NextArchive]_vars

----------------------------------------------------------------------------
(* Properties of the archival cycle, under SpecArchive *)

\* the sum of quantity * unit_cost over the rows of a waste log
RECURSIVE TotalWasteValue(_)
TotalWasteValue(rows) ==
    IF rows = <<>> THEN 0
    ELSE rows[1].quantity * rows[1].unit_cost + TotalWasteValue(Tail(rows))

\* the positions of an archive_waste_log call in progress
ArchivalPcs == {"archive_waste_log", "archive_copy", "archive_clear"}

\* the state archive_waste_log returns in, to force_archive or to waste_log
JustArchived ==
    \/ pc = "idle" /\ flash = <<"archived">>
    \/ pc = "waste_log_body" /\ flash = <<"archived_auto">>

HasBadDate(rows) == \E i \in 1..Len(rows) : ~rows[i].date.valid

\* the timestamp of the oldest entry of a log whose dates all parse
Oldest(rows) ==
    CHOOSE m \in {rows[i].date.at : i \in 1..Len(rows)} :
        \A i \in 1..Len(rows) : m <= rows[i].date.at

\* the weekly report log ends with the report of `rows`
ReportSaved(rows) ==
    /\ Len(read_weekly_reports) > 0
    /\ read_weekly_reports[Len(read_weekly_reports)].total_entries =
          Len(rows)
    /\ read_weekly_reports[Len(read_weekly_reports)].total_value =
          TotalWasteValue(rows)

\* the archive directory holds today's snapshot, and it is `rows`
SnapshotTaken(rows) ==
    /\ archive_filename(now) \in DOMAIN archive
    /\ WasteRows(archive[archive_filename(now)]) = rows

\* the archive directory holds a snapshot that is `rows`
SnapshotKept(rows) == \E f \in DOMAIN archive : WasteRows(archive[f]) = rows

\* C1: archive_waste_log on a non-empty live log appends exactly one report to
\* the weekly report log, whose total_entries is the number of archived
\* entries and whose total_value is the sum of their waste values, leaves the
\* report log alone in its other steps, and ends with the live log empty.
C1_ArchiveAppendsOneReport ==
    [][ /\ (pc = "archive_waste_log" /\ read_waste_log # <<>>) =>
            /\ Len(read_weekly_reports') = Len(read_weekly_reports) + 1
            /\ SubSeq(read_weekly_reports', 1, Len(read_weekly_reports)) =
                  read_weekly_reports
            /\ read_weekly_reports'[Len(read_weekly_reports')].total_entries =
                  Len(read_waste_log)
            /\ read_weekly_reports'[Len(read_weekly_reports')].total_value =
                  TotalWasteValue(read_waste_log)
            /\ wasteLog' = wasteLog
            /\ pc' = "archive_copy"
        /\ pc = "archive_copy" =>
            reports' = reports /\ wasteLog' = wasteLog /\ pc' = "archive_clear"
        /\ pc = "archive_clear" =>
            /\ reports' = reports
            /\ read_waste_log' = <<>>
            /\ pc' \notin ArchivalPcs
        /\ pc \notin ArchivalPcs => reports' = reports
      ]_vars

\* an archival of two entries has just returned: the live log is empty and the
\* last report counts the two entries and their value
C1_Witness ==
    /\ JustArchived
    /\ Len(entries) = 2
    /\ read_waste_log = <<>>
    /\ read_weekly_reports[Len(read_weekly_reports)].total_entries = 2
    /\ read_weekly_reports[Len(read_weekly_reports)].total_value =
          TotalWasteValue(entries)
    /\ TotalWasteValue(entries) > 0

\* C2: a visit to the waste log page starts an archival exactly when the live
\* log is non-empty and the oldest entry is at least 7 days old (for a log
\* whose dates all parse).
C2_ArchivalDueAtSevenDays ==
    [][ (/\ pc = "idle"
         /\ pc' # "idle"
         /\ req'.op \in {"get", "add", "edit", "delete"}
         /\ ~HasBadDate(read_waste_log)) =>
           (pc' = "archive_waste_log" <=>
              /\ read_waste_log # <<>>
              /\ now - Oldest(read_waste_log) >= ArchiveDays * TicksPerDay)
      ]_vars

\* a visit started an archival of a log whose oldest entry is exactly 7 days
\* old
C2_Witness ==
    /\ pc = "archive_waste_log"
    /\ req.op = "get"
    /\ ~HasBadDate(read_waste_log)
    /\ now - Oldest(read_waste_log) = ArchiveDays * TicksPerDay

\* a visit did not start an archival of a log whose oldest entry is one tick
\* younger than 7 days
C2_WitnessYounger ==
    /\ pc = "waste_log_body"
    /\ req.op = "get"
    /\ flash = <<>>
    /\ read_waste_log # <<>>
    /\ ~HasBadDate(read_waste_log)
    /\ now - Oldest(read_waste_log) = ArchiveDays * TicksPerDay - 1

\* C3 as stated: the snapshot is taken first, and the report is appended to
\* the report log only once the snapshot is in the archive.
C3_SnapshotBeforeReport ==
    [][ Len(read_weekly_reports') > Len(read_weekly_reports) =>
           SnapshotTaken(read_waste_log) ]_vars

\* C3, amended: the report is appended first, then the snapshot is taken, and
\* the live log is truncated last: while the report or the snapshot is
\* missing the live log still holds every entry, and when archive_waste_log
\* returns both are there.
C3_ReportThenSnapshotThenTruncate ==
    /\ pc = "archive_copy" =>
          /\ read_waste_log # <<>> /\ read_waste_log = entries
          /\ ReportSaved(read_waste_log)
    /\ pc = "archive_clear" =>
          /\ read_waste_log # <<>> /\ read_waste_log = entries
          /\ ReportSaved(read_waste_log) /\ SnapshotTaken(read_waste_log)
    /\ JustArchived =>
          read_waste_log = <<>> /\ ReportSaved(entries) /\ SnapshotKept(entries)

\* the report is saved, the snapshot is not yet taken, and the live log still
\* holds its two entries
C3_Witness ==
    /\ pc = "archive_copy"
    /\ Len(read_waste_log) = 2
    /\ ReportSaved(read_waste_log)
    /\ ~SnapshotTaken(read_waste_log)

\* C4: a visit to the waste log page while an entry's date does not parse
\* starts no archival: the handler goes on to its body with the live log, the
\* archive and the report log as they were, and the body ends the request.
C4_BadDateSkipsArchival ==
    [][ /\ (/\ pc = "idle"
            /\ pc' # "idle"
            /\ req'.op \in {"get", "add", "edit", "delete"}
            /\ HasBadDate(read_waste_log)) =>
              /\ pc' = "waste_log_body"
              /\ UNCHANGED <<wasteLog, archive, reports>>
        /\ pc = "waste_log_body" =>
              /\ pc' = "idle"
              /\ UNCHANGED <<archive, reports>>
              /\ req.op = "get" => UNCHANGED wasteLog
      ]_vars

\* a visit has gone past the archival check untouched, with a row whose date
\* does not parse next to an entry that is 7 days old
C4_Witness ==
    /\ pc = "waste_log_body"
    /\ req.op = "get"
    /\ flash = <<>>
    /\ read_weekly_reports = <<>>
    /\ HasBadDate(read_waste_log)
    /\ \E i \in 1..Len(read_waste_log) :
          /\ read_waste_log[i].date.valid
          /\ now - read_waste_log[i].date.at >= ArchiveDays * TicksPerDay

----------------------------------------------------------------------------
(* Properties of vendor management, under SpecVendors *)

\* the number of records of a collection that carry the name
Count(rows, name) == Cardinality({i \in 1..Len(rows) : rows[i].name = name})

\* some inventory item lists the vendor
VendorListed(name) ==
    \E i \in 1..Len(read_inventory) :
        name \in Range(read_inventory[i].vendors)

\* C5: a delete request by a user who may edit, for a vendor of the
\* collection, is rejected and leaves the collection unchanged when an item
\* lists the vendor, and otherwise succeeds and removes exactly one record.
C5_VendorDeleteRemovesOne ==
    [][ \A n \in VendorNames :
          (Count(read_vendors, n) > 0 /\ vendors_delete("admin", n)) =>
             IF VendorListed(n)
             THEN vendors' = vendors /\ flash' = <<"vendor_in_use">>
             ELSE /\ Len(read_vendors') = Len(read_vendors) - 1
                  /\ flash' = <<"vendor_deleted">>
      ]_vars

\* C8: no two vendors of the collection have the same name.
C8_VendorNamesUnique ==
    \A i, j \in 1..Len(read_vendors) :
        read_vendors[i].name = read_vendors[j].name => i = j

----------------------------------------------------------------------------
(* Category management next to the items that name a category *)

NextCategories ==
    \/ \E u \in Usernames, name \in CategoryNames \cup {""} :
          categories_add(u, name)
    \/ \E u \in Usernames, old_name \in CategoryNames \cup {""},
          new_name \in CategoryNames :
          categories_edit(u, old_name, new_name)
    \/ \E u \in Usernames, name \in CategoryNames \cup {""} :
          categories_delete(u, name)
    \/ \E u \in Usernames, name \in ItemNames, c \in CategoryNames :
          add_item(u, name, str_int(1), str_int(1), c, str_int(0), <<>>)
    \/ \E u \in Usernames, name \in ItemNames, c \in CategoryNames :
          edit_item(u, name, name, str_int(1), str_int(1), c, str_int(0),
                    <<>>)
    \/ \E u \in Usernames, name \in ItemNames : delete_item(u, name)

SpecCategories == Init /\ [][NextCategories]_vars

\* some inventory item is of the category
Referenced(name) ==
    \E i \in 1..Len(read_inventory) : read_inventory[i].category = name

\* the names of the records of a collection
Names(rows) == {rows[i].name : i \in 1..Len(rows)}

\* C6: a delete request for a category that some inventory item references is
\* rejected and leaves the category collection unchanged, and every step
\* that takes records out of the collection takes out only records of a
\* category that no item references.
C6_CategoryDeleteOnlyUnreferenced ==
    [][ /\ \A u \in Usernames, n \in CategoryNames :
              (Referenced(n) /\ categories_delete(u, n)) =>
                 /\ categories' = categories
                 /\ flash' \in {<<"category_in_use">>, <<"no_permission">>}
        /\ Len(read_categories') < Len(read_categories) =>
              \A n \in CategoryNames :
                 Count(read_categories', n) < Count(read_categories, n) =>
                    ~Referenced(n)
      ]_vars

\* a delete request for a category that an item references has just been
\* rejected, and the category is still in the collection
C6_Witness ==
    /\ flash = <<"category_in_use">>
    /\ \E n \in Names(read_categories) : Referenced(n)

\* a delete request has removed a category while an item references another
C6_WitnessDeleted ==
    /\ flash = <<"category_deleted">>
    /\ Len(read_categories) < 2
    /\ \E n \in Names(read_categories) : Referenced(n)

----------------------------------------------------------------------------
(* The inventory: items added, edited, counted, deleted and imported while *)
(* waste is logged against them                                            *)

\* Milk is bought from HPM, Flour is not
ItemVendors(name) == IF name = "Milk" THEN <<"HPM">> ELSE <<>>

\* a data line of an uploaded file, cut at its commas
CsvLine(name, quantity, unit_cost) ==
    <<name, "each", quantity, str_int(1), "General", str_float(unit_cost),
      IF name = "Milk" THEN "HPM" ELSE "", "stamp">>

\* the uploads: a header and no data line, a header without the required
\* columns, a line with a quantity that is no number, a line with the
\* quantity as the export writes it, two items, and the same item twice
Uploads ==
    { <<Header>>,
      <<<<"name", "quantity">>, <<"Flour", str_int(2)>>>>,
      <<Header, CsvLine("Flour", NotANumber, 2)>>,
      <<Header, CsvLine("Flour", str_float(2), 2)>>,
      <<Header, CsvLine("Flour", str_int(2), 3),
                CsvLine("Milk", str_int(2), 2)>>,
      <<Header, CsvLine("Flour", str_int(2), 2),
                CsvLine("Flour", str_int(1), 3)>> }

InitInventory ==
    /\ inventory = write_inventory(<<Item("Flour", 2, 1, "General", 2, <<>>)>>)
    /\ wasteLog = write_waste_log(<<>>)
    /\ vendors = write_vendors(<<Vendor("Sams Club", FALSE),
                                 Vendor("Costco", FALSE)>>)
    /\ categories = write_categories(<<Category("General"),
                                       Category("Produce")>>)
    /\ users = File(DefaultUsers)
    /\ reports = <<>>
    /\ archive = [f \in {} |-> <<>>]
    /\ now = 0
    /\ pc = "idle"
    /\ req = NoRequest
    /\ flash = <<>>
    /\ entries = <<>>
    /\ returned = NoCall
    /\ threads = NoThreads
    /\ inventoryReports = File(<<>>)

NextInventory ==
    \/ \E u \in Usernames, name \in ItemNames :
          add_item(u, name, str_int(2), str_int(1), "General", str_int(2),
                   ItemVendors(name))
    \/ \E u \in Usernames, old_name \in ItemNames, new_name \in ItemNames,
          c \in {2, 3} :
          edit_item(u, old_name, new_name, str_int(2), str_int(1), "General",
                    str_int(c), ItemVendors(new_name))
    \/ \E u \in Usernames, name \in ItemNames : delete_item(u, name)
    \/ \E u \in Usernames, name \in ItemNames : update_count(u, name, str_int(1))
    \/ \E u \in Usernames, csv_data \in Uploads :
          import_export(u, csv_data)
    \/ \E name \in ItemNames :
          waste_log("add", "sam", name, str_int(1), "spoiled", 0)
    \/ waste_log_body
    \/ \E name \in ItemNames : hpm_items_log_waste("sam", name, str_int(1), "spoiled")

SpecInventory == InitInventory /\ [][NextInventory]_vars

\* C7: no two items of the inventory have the same name.
C7_ItemNamesUnique ==
    \A i, j \in 1..Len(read_inventory) :
        read_inventory[i].name = read_inventory[j].name => i = j

----------------------------------------------------------------------------
(* The waste log page and the HPM page next to the stock and the unit     *)
(* costs of the items                                                      *)

\* the unit costs the item form carries; float() accepts a negative cost
UnitCosts == {-2, 3}
\* the wasted quantities the forms carry
WasteQuantities == {1, 3}
\* the items the waste forms name; Eggs is never in the inventory
WasteItems == {"Flour", "Eggs"}

\* the stock an item would have with the entry at entry_index taken back
RestoredQuantity(entry_index) ==
    LET o == get_waste_entry(entry_index)
        i == IF o = 0 THEN 0
             ELSE get_inventory_item(read_waste_log[o].item_name)
    IN  IF i = 0 THEN 0
        ELSE read_inventory[i].quantity + read_waste_log[o].quantity

InitWaste ==
    /\ inventory = write_inventory(
                       <<Item("Flour", 2, 1, "General", 2, <<>>),
                         Item("Milk", 2, 1, "Dairy", 3, <<"HPM">>)>>)
    /\ wasteLog = write_waste_log(<<>>)
    /\ vendors = write_vendors(<<Vendor("Sams Club", FALSE),
                                 Vendor("Costco", FALSE)>>)
    /\ categories = write_categories(<<Category("General"),
                                       Category("Produce")>>)
    /\ users = File(DefaultUsers)
    /\ reports = <<>>
    /\ archive = [f \in {} |-> <<>>]
    /\ now = 0
    /\ pc = "idle"
    /\ req = NoRequest
    /\ flash = <<>>
    /\ entries = <<>>
    /\ returned = NoCall
    /\ threads = NoThreads
    /\ inventoryReports = File(<<>>)

NextWaste ==
    \/ \E c \in UnitCosts :
          LET i == get_inventory_item("Flour")
          IN  edit_item("admin", "Flour", "Flour",
                        str_float(read_inventory[i].quantity), str_int(1),
                        "General", str_float(c), <<>>)
    \/ waste_log("get", "sam", "", str_int(0), "", 0)
    \/ \E name \in WasteItems, q \in WasteQuantities :
          waste_log("add", "sam", name, str_int(q), "spoiled", 0)
    \/ \E name \in WasteItems, q \in WasteQuantities, k \in 0..MaxLog :
          /\ RestoredQuantity(k) <= MaxQuantity
          /\ waste_log("edit", "sam", name, str_int(q), "spoiled", k)
    \/ \E k \in 0..MaxLog :
          /\ RestoredQuantity(k) <= MaxQuantity
          /\ waste_log("delete", "sam", "", str_int(0), "", k)
    \/ waste_log_body
    \/ hpm_items_log_waste("sam", "Milk", str_int(3), "spoiled")

SpecWaste == InitWaste /\ [][NextWaste]_vars

----------------------------------------------------------------------------
(* Properties of the stock and of the logged unit costs, under SpecWaste *)

\* the first row of the inventory that carries the name, 0 when none does
RowOf(rows, name) ==
    IF \E i \in 1..Len(rows) : rows[i].name = name
    THEN CHOOSE i \in 1..Len(rows) :
            /\ rows[i].name = name
            /\ \A j \in 1..(i - 1) : rows[j].name # name
    ELSE 0

\* a stock less a wasted quantity, never below zero
Clamped(stock, wasted) == IF stock - wasted < 0 THEN 0 ELSE stock - wasted

\* the request on the waste log page whose body runs in this step
InBody(action) == pc = "waste_log_body" /\ req.op = action

\* the HPM page logs waste in this step
HpmLogs ==
    /\ pc = "idle" /\ pc' = "idle"
    /\ Len(read_waste_log') = Len(read_waste_log) + 1

\* C9: a waste entry logged on the waste log page or on the HPM page against
\* an item of the inventory leaves the item with max(0, stock - wasted); an
\* edited entry leaves it with max(0, restored stock - wasted), the restored
\* stock being the stock with the original entry's quantity given back when
\* that entry was logged against the same item; no item ever has a negative
\* stock.
C9_DecrementClamps ==
    [][ /\ InBody("add") /\ RowOf(read_inventory, req.item_name) # 0 =>
            LET i == RowOf(read_inventory, req.item_name)
            IN  read_inventory'[i].quantity =
                    Clamped(read_inventory[i].quantity, float(req.quantity))
        /\ (/\ InBody("edit")
            /\ req.entry_index < Len(read_waste_log)
            /\ RowOf(read_inventory, req.item_name) # 0) =>
            LET i == RowOf(read_inventory, req.item_name)
                original == read_waste_log[req.entry_index + 1]
                restored == read_inventory[i].quantity +
                            (IF original.item_name = req.item_name
                             THEN original.quantity ELSE 0)
            IN  read_inventory'[i].quantity =
                    Clamped(restored, float(req.quantity))
        /\ HpmLogs =>
            LET entry == read_waste_log'[Len(read_waste_log')]
                i == RowOf(read_inventory, entry.item_name)
            IN  /\ i # 0
                /\ read_inventory'[i].quantity =
                       Clamped(read_inventory[i].quantity, entry.quantity)
        /\ \A i \in 1..Len(read_inventory') : read_inventory'[i].quantity >= 0
      ]_vars

\* more Flour was logged as waste than was in stock, and the stock is zero
C9_Witness ==
    /\ pc = "idle"
    /\ flash = <<"waste_logged">>
    /\ read_waste_log # <<>>
    /\ read_waste_log[Len(read_waste_log)].item_name = "Flour"
    /\ read_waste_log[Len(read_waste_log)].quantity = 3
    /\ read_inventory[RowOf(read_inventory, "Flour")].quantity = 0

\* an entry was edited and the item is left with a positive stock
C9_WitnessEdit ==
    /\ pc = "idle"
    /\ flash = <<"waste_updated">>
    /\ read_waste_log # <<>>
    /\ \E k \in 1..Len(read_waste_log) :
          /\ read_waste_log[k].item_name = "Flour"
          /\ read_waste_log[k].quantity = 1
    /\ read_inventory[RowOf(read_inventory, "Flour")].quantity > 0

\* C10: the entry a waste form appends carries, as the program reads it
\* back, the unit cost the item had when the form was posted (0 when the
\* item is not in the inventory), and a step that changes an item's unit
\* cost leaves every logged entry's unit cost and waste value as they were.
C10_UnitCostAtLogTime ==
    [][ /\ InBody("add") =>
            LET i == RowOf(read_inventory, req.item_name)
                logged == read_waste_log'[Len(read_waste_log')]
                unit_cost == IF i = 0 THEN 0 ELSE read_inventory[i].unit_cost
            IN  /\ logged.unit_cost = unit_cost
                /\ waste_value(logged) = float(req.quantity) * unit_cost
        /\ (\E i \in 1..Len(read_inventory) :
               /\ i <= Len(read_inventory')
               /\ read_inventory'[i].unit_cost # read_inventory[i].unit_cost) =>
            /\ Len(read_waste_log') = Len(read_waste_log)
            /\ \A k \in 1..Len(read_waste_log) :
                  /\ read_waste_log'[k].unit_cost = read_waste_log[k].unit_cost
                  /\ read_waste_log'[k].quantity = read_waste_log[k].quantity
      ]_vars

----------------------------------------------------------------------------
(* The inventory file written, read back, exported and imported *)

\* the items a caller holds in memory, each <<name, quantity, par_level,
\* category, unit_cost, vendors>>: out of stock, with a negative unit cost,
\* with two vendors, with an empty category
ItemTuples ==
    { <<"Flour", 2, 1, "General", 2, <<>>>>,
      <<"Flour", 0, 3, "Produce", -2, <<"Costco">>>>,
      <<"Milk", 3, 1, "Dairy", 3, <<"Costco", "HPM">>>>,
      <<"Milk", 0, 0, "", 0, <<"HPM">>>>,
      <<"Rice", 3, 1, "General", 2, <<"Costco", "Sams Club">>>>,
      <<"Salt", 1, 2, "Produce", 1, <<"Costco", "Costco", "Sams Club">>>> }

\* the lists of at most MaxItems such items
ItemLists ==
    UNION {[1..n -> ItemTuples] : n \in 0..MaxItems}

ItemsOf(ts) ==
    [i \in 1..Len(ts) |->
        Item(ts[i][1], ts[i][2], ts[i][3], ts[i][4], ts[i][5], ts[i][6])]

\* a caller writes its items with write_inventory
Call_write_inventory(ts) ==
    /\ pc = "idle"
    /\ inventory' = write_inventory(ItemsOf(ts))
    /\ returned' = Return("write_inventory", <<>>)
    /\ UNCHANGED <<wasteLog, vendors, categories, users, reports, archive,
                   now, pc, req, flash, entries, threads,
                   inventoryReports>>

\* a caller reads the inventory with read_inventory
Call_read_inventory ==
    /\ pc = "idle"
    /\ returned' = Return("read_inventory", read_inventory)
    /\ UNCHANGED <<inventory, wasteLog, vendors, categories, users, reports,
                   archive, now, pc, req, flash, entries, threads,
                   inventoryReports>>

NextFiles ==
    \/ \E ts \in ItemLists : Call_write_inventory(ts)
    \/ Call_read_inventory
    \/ \E u \in Usernames : export_csv(u)
    \/ \E u \in Usernames : import_export(u, export_inventory_csv)

SpecFiles == Init /\ [][NextFiles]_vars

----------------------------------------------------------------------------
(* utils.py: the weekly inventory report *)

\* a faulty variant: the value of the par level, not of the stock
total_value_of_par_level(item) == item.par_level * item.unit_cost

\* a faulty variant: an item at its par level is not low in stock
is_low_stock_below_par(item) == item.quantity < item.par_level

\* a faulty variant: no floor at zero
quantity_needed_unclamped(item) == item.par_level - item.quantity

\* InventoryItem.total_value, InventoryItem.is_low_stock and
\* InventoryItem.quantity_needed
total_value(item) == item.quantity * item.unit_cost
is_low_stock(item) == item.quantity <= item.par_level
quantity_needed(item) == Max(0, item.par_level - item.quantity)

\* filter_inventory: "" stands for a filter that is not given
filter_inventory(category, vendor, low_stock_only) ==
    LET by_category == IF category = "" THEN read_inventory
                       ELSE SelectSeq(read_inventory,
                                LAMBDA item : item.category = category)
        by_vendor == IF vendor = "" THEN by_category
                     ELSE SelectSeq(by_category,
                              LAMBDA item :
                                  vendor \in Range(get_vendors(item)))
    IN  IF low_stock_only THEN SelectSeq(by_vendor, is_low_stock)
        ELSE by_vendor

\* the names get_shopping_list_items collects in excluded_vendors
excluded_vendors ==
    {read_vendors[i].name :
        i \in {k \in 1..Len(read_vendors) : read_vendors[k].exclude}}
    \cup {"HPM"}

\* a faulty variant: an item is left out as soon as one of its vendors is
\* excluded
get_shopping_list_items_any_excluded ==
    SelectSeq(filter_inventory("", "", TRUE),
              LAMBDA item :
                  \A v \in Range(get_vendors(item)) :
                      v \notin excluded_vendors)

\* get_shopping_list_items: a low-stock item is kept when it has no vendor
\* or when not all of its vendors are excluded
get_shopping_list_items ==
    SelectSeq(filter_inventory("", "", TRUE),
              LAMBDA item :
                  \/ get_vendors(item) = <<>>
                  \/ ~ \A v \in Range(get_vendors(item)) :
                           v \in excluded_vendors)

\* the quotients of item.total_value() / len(vendors), kept exact as
\* <<numerator, denominator>>
Frac(n, d) == <<n, d>>
FracAdd(a, b) == <<a[1] * b[2] + b[1] * a[2], a[2] * b[2]>>
FracEq(a, b) == a[1] * b[2] = b[1] * a[2]

\* d[key] = value
Put(d, key, value) ==
    [k \in DOMAIN d \cup {key} |-> IF k = key THEN value ELSE d[k]]

non_hpm_items ==
    SelectSeq(read_inventory,
              LAMBDA item : "HPM" \notin Range(get_vendors(item)))

RECURSIVE SumTotalValues(_)
SumTotalValues(items) ==
    IF items = <<>> THEN 0
    ELSE total_value(Head(items)) + SumTotalValues(Tail(items))

\* the loop that fills by_category
RECURSIVE ByCategory(_)
ByCategory(items) ==
    IF items = <<>> THEN <<>>
    ELSE LET item == items[Len(items)]
             by_category == ByCategory(SubSeq(items, 1, Len(items) - 1))
             so_far == IF item.category \in DOMAIN by_category
                       THEN by_category[item.category] ELSE 0
         IN  Put(by_category, item.category, so_far + total_value(item))

\* a faulty variant: the whole value of the item to each of its vendors
WholeValue(item, item_vendors) == Frac(total_value(item), 1)

\* item.total_value() / len(vendors)
Share(item, item_vendors) == Frac(total_value(item), Len(item_vendors))

\* the inner loop: the share added to each vendor of the list in turn
RECURSIVE AddShares(_, _, _)
AddShares(by_vendor, item_vendors, share) ==
    IF item_vendors = <<>> THEN by_vendor
    ELSE LET vendor == Head(item_vendors)
             so_far == IF vendor \in DOMAIN by_vendor
                       THEN by_vendor[vendor] ELSE Frac(0, 1)
         IN  AddShares(Put(by_vendor, vendor, FracAdd(so_far, share)),
                       Tail(item_vendors), share)

\* the loop that fills by_vendor
RECURSIVE ByVendor(_)
ByVendor(items) ==
    IF items = <<>> THEN <<>>
    ELSE LET item == items[Len(items)]
             item_vendors == IF get_vendors(item) # <<>>
                             THEN get_vendors(item) ELSE <<"No Vendor">>
         IN  AddShares(ByVendor(SubSeq(items, 1, Len(items) - 1)),
                       item_vendors, Share(item, item_vendors))

generate_weekly_inventory_report ==
    [total_items     |-> Len(non_hpm_items),
     total_value     |-> SumTotalValues(non_hpm_items),
     by_category     |-> ByCategory(non_hpm_items),
     by_vendor       |-> ByVendor(non_hpm_items),
     low_stock_items |-> Len(SelectSeq(non_hpm_items, is_low_stock))]

\* datetime.weekday() of the day of a tick: day 0 is a Monday, Monday is 0
weekday(t) == Day(t) % 7

\* week_start and week_end of generate_weekly_inventory_report: the Monday
\* and the Sunday of the calendar week of the tick, as days
week_start(t) == Day(t) - weekday(t)
week_end(t) == Day(t) + (6 - weekday(t))

\* save_weekly_inventory_report: the file is created when it is missing and
\* one row is appended, with str() of the report's numbers and the dates as
\* strftime writes them ('%Y-%m-%d': the day)
save_weekly_inventory_report(report) ==
    File(Append(inventoryReports.rows,
                [week_start      |-> week_start(now),
                 week_end        |-> week_end(now),
                 total_items     |-> str_int(report.total_items),
                 total_value     |-> str_float(report.total_value),
                 by_category     |-> report.by_category,
                 by_vendor       |-> report.by_vendor,
                 low_stock_items |-> str_int(report.low_stock_items),
                 generated_date  |-> GoodDate(now)]))

\* the loop of read_weekly_inventory_reports: the first row whose numbers
\* int() or float() rejects raises, and the reports read so far are returned
RECURSIVE InventoryReportRows(_)
InventoryReportRows(rows) ==
    IF rows = <<>> THEN <<>>
    ELSE IF \/ int_raises(Head(rows).total_items)
            \/ float_raises(Head(rows).total_value)
            \/ int_raises(Head(rows).low_stock_items)
    THEN <<>>
    ELSE <<[Head(rows) EXCEPT !.total_items = int(@),
                              !.total_value = float(@),
                              !.low_stock_items = int(@)]>>
         \o InventoryReportRows(Tail(rows))

\* read_weekly_inventory_reports: no report for a missing file
read_weekly_inventory_reports ==
    IF inventoryReports.exists THEN InventoryReportRows(inventoryReports.rows)
    ELSE <<>>

\* should_generate_weekly_inventory_report: True without a report;
\* otherwise last_date is the midnight that begins the week_end day of the
\* last report, and timedelta.days is the floor of the difference in days
should_generate_weekly_inventory_report ==
    LET rows == read_weekly_inventory_reports
    IN  IF rows = <<>> THEN TRUE
        ELSE LET last_date == rows[Len(rows)].week_end * TicksPerDay
             IN  ((now - last_date) \div TicksPerDay) >= ReportDays

\* check_and_generate_inventory_report_if_needed: the file it leaves
check_and_generate_inventory_report_if_needed ==
    IF should_generate_weekly_inventory_report
    THEN save_weekly_inventory_report(generate_weekly_inventory_report)
    ELSE inventoryReports

\* weekly_waste_reports: the page of the reports, behind
\* require_permission('view'); it flashes nothing
weekly_waste_reports(u) ==
    /\ pc = "idle"
    /\ IF ~require_permission(u, "view")
       THEN /\ flash' = <<"no_permission">>
            /\ UNCHANGED inventoryReports
       ELSE /\ should_generate_weekly_inventory_report =>
                  Len(inventoryReports.rows) < MaxInventoryReports
            /\ flash' = <<>>
            /\ inventoryReports' =
                  check_and_generate_inventory_report_if_needed
    /\ UNCHANGED <<inventory, wasteLog, vendors, categories, users, reports,
                   archive, now, pc, req, entries, returned, threads>>

\* force_generate_inventory_report: a report is appended whatever the date
force_generate_inventory_report(u) ==
    /\ pc = "idle"
    /\ IF ~require_permission(u, "edit")
       THEN /\ flash' = <<"no_permission">>
            /\ UNCHANGED inventoryReports
       ELSE /\ Len(inventoryReports.rows) < MaxInventoryReports
            /\ flash' = <<"inventory_report_generated">>
            /\ inventoryReports' =
                  save_weekly_inventory_report(
                      generate_weekly_inventory_report)
    /\ UNCHANGED <<inventory, wasteLog, vendors, categories, users, reports,
                   archive, now, pc, req, entries, returned, threads>>

----------------------------------------------------------------------------
(* generate_weekly_report applied to sequences of waste entries *)

\* item_name, quantity, reason, unit_cost of the entries of the calls
EntryTuples ==
    { <<"Flour", 1, "Expired", 2>>,
      <<"Flour", 2, "Damaged", 3>>,
      <<"Milk", 2, "Expired", 3>>,
      <<"Milk", 1, "Damaged", -3>>,
      <<"Salt", 1, "Expired", 0>> }

EntryLists == UNION {[1..n -> EntryTuples] : n \in 0..MaxLog}

EntriesOf(es) ==
    [i \in 1..Len(es) |->
        WasteEntry(es[i][1], es[i][2], es[i][3], GoodDate(0), "admin",
                   es[i][4])]

Call_generate_weekly_report(es) ==
    /\ pc = "idle"
    /\ returned' = Return("generate_weekly_report",
                          generate_weekly_report(EntriesOf(es), 0, 0))
    /\ UNCHANGED <<inventory, wasteLog, vendors, categories, users, reports,
                   archive, now, pc, req, flash, entries, threads,
                   inventoryReports>>

Call_generate_weekly_inventory_report ==
    /\ pc = "idle"
    /\ returned' = Return("generate_weekly_inventory_report",
                          generate_weekly_inventory_report)
    /\ UNCHANGED <<inventory, wasteLog, vendors, categories, users, reports,
                   archive, now, pc, req, flash, entries, threads,
                   inventoryReports>>

NextReport ==
    \/ \E ts \in ItemLists : Call_write_inventory(ts)
    \/ \E es \in EntryLists : Call_generate_weekly_report(es)
    \/ Call_generate_weekly_inventory_report

SpecReport == Init /\ [][NextReport]_vars

\* the sum of f over the finite set S
RECURSIVE SumOver(_, _)
SumOver(S, f) ==
    IF S = {} THEN 0
    ELSE LET x == CHOOSE x \in S : TRUE
         IN  f[x] + SumOver(S \ {x}, f)

\* the category of the item the inventory lookup holds for a name
LookupCategory(item_name) ==
    LET held == {i \in 1..Len(read_inventory) :
                    read_inventory[i].name = item_name}
    IN  IF held = {} THEN "Unknown"
        ELSE read_inventory[CHOOSE i \in held : \A j \in held : j <= i].category

\* grouping is the sum of the waste values per key, and sums to the total
GroupedBy(grouping, value, key, total) ==
    /\ DOMAIN grouping = Range(key)
    /\ \A k \in DOMAIN grouping :
          grouping[k] = SumOver({i \in DOMAIN key : key[i] = k}, value)
    /\ SumOver(DOMAIN grouping, grouping) = total

\* C13: generate_weekly_report returns total_entries = the number of
\* entries, total_value = the sum of their waste values, and the groupings
\* by category (through the inventory lookup, 'Unknown' for an item not in
\* inventory), by reason and by item name, each key holding the sum of the
\* waste values of its entries and each grouping summing to total_value; for
\* no entries the totals are zero and the groupings empty.
C13_WeeklyReportTotals ==
    [][ \A es \in EntryLists :
           Call_generate_weekly_report(es) =>
              LET report == returned'.value
                  value == [i \in 1..Len(es) |-> es[i][2] * es[i][4]]
                  total == SumOver(1..Len(es), value)
              IN  /\ report.total_entries = Len(es)
                  /\ report.total_value = total
                  /\ GroupedBy(report.by_category, value,
                               [i \in 1..Len(es) |-> LookupCategory(es[i][1])],
                               total)
                  /\ GroupedBy(report.by_reason, value,
                               [i \in 1..Len(es) |-> es[i][3]], total)
                  /\ GroupedBy(report.by_item, value,
                               [i \in 1..Len(es) |-> es[i][1]], total)
                  /\ es = <<>> =>
                        /\ report.total_entries = 0
                        /\ report.total_value = 0
                        /\ DOMAIN report.by_category = {}
                        /\ DOMAIN report.by_reason = {}
                        /\ DOMAIN report.by_item = {}
      ]_vars

\* a report of two entries of one item and one reason, the item in the
\* inventory under two categories
C13_Witness ==
    /\ returned.call = "generate_weekly_report"
    /\ returned.value.total_entries = 2
    /\ returned.value.total_value = 8
    /\ returned.value.by_item = [k \in {"Flour"} |-> 8]
    /\ Len(read_inventory) = 2
    /\ read_inventory[1].name = read_inventory[2].name
    /\ returned.value.by_category =
          [k \in {read_inventory[2].category} |-> 8]
    /\ read_inventory[1].category # read_inventory[2].category

\* a report of no entries
C13_WitnessEmpty ==
    /\ returned.call = "generate_weekly_report"
    /\ returned.value.total_entries = 0
    /\ returned.value.by_reason = <<>>

\* a report with an entry of an item that is not in the inventory
C13_WitnessUnknown ==
    /\ returned.call = "generate_weekly_report"
    /\ "Unknown" \in DOMAIN returned.value.by_category
    /\ Len(read_inventory) > 0

----------------------------------------------------------------------------
(* The routes behind require_permission, for users of known and unknown   *)
(* roles                                                                   *)

\* users.csv with two rows whose role is none of the three the mapping knows
RoleUsers ==
    DefaultUsers \o << [username |-> "pat", role |-> "intern"],
                       [username |-> "kim", role |-> "Admin"] >>

\* the users that are logged in: the admin holds every permission that a
\* route of the model asks for, so only pat and kim are ever turned away
SessionUsers == {"admin", "pat", "kim"}

InitRoles ==
    /\ inventory = write_inventory(<<Item("Flour", 2, 1, "General", 2, <<>>)>>)
    /\ wasteLog = write_waste_log(<<WasteEntry("Flour", 1, "spoiled",
                                               GoodDate(0), "sam", 2)>>)
    /\ vendors = write_vendors(<<Vendor("Costco", FALSE)>>)
    /\ categories = write_categories(<<Category("General")>>)
    /\ users = File(RoleUsers)
    /\ reports = <<>>
    /\ archive = [f \in {} |-> <<>>]
    /\ now = 0
    /\ pc = "idle"
    /\ req = NoRequest
    /\ flash = <<>>
    /\ entries = <<>>
    /\ returned = NoCall
    /\ threads = NoThreads
    /\ inventoryReports = File(<<>>)

\* the routes decorated with require_permission, requested by u
Guarded(u) ==
    \/ add_item(u, "Milk", str_int(2), str_int(1), "General", str_int(2),
                <<>>)
    \/ edit_item(u, "Milk", "Milk", str_int(3), str_int(1), "General",
                 str_int(2), <<"Costco">>)
    \/ delete_item(u, "Milk")
    \/ import_export(u, <<Header, CsvLine("Flour", str_int(1), 3)>>)
    \/ export_csv(u)
    \/ vendors_add(u, "HPM", FALSE)
    \/ vendors_edit(u, "HPM", "HPM", TRUE)
    \/ vendors_delete(u, "HPM")
    \/ add_vendor_route(u, "HPM")
    \/ edit_vendor(u, "HPM")
    \/ categories_add(u, "Dairy")
    \/ categories_edit(u, "Dairy", "Produce")
    \/ categories_delete(u, "Produce")
    \/ force_archive(u)

NextRoles ==
    \/ \E u \in SessionUsers : Guarded(u)
    \/ archive_waste_log_report
    \/ archive_waste_log_copy
    \/ archive_waste_log_clear

SpecRoles == InitRoles /\ [][NextRoles]_vars

KnownRoles == {"admin", "manager", "staff"}

\* the tags the routes and the templates ask for, and one nobody grants
PermissionTags ==
    {"view", "edit", "delete", "import", "export", "manage_users",
     "record_counts", "approve_orders", "log_waste", "audit"}

\* C15: has_permission is false for every permission tag for a user whose
\* role is none of admin, manager, staff, and every route guarded by
\* require_permission leaves all collections unchanged for such a user.
C15_UnknownRoleDenied ==
    [][ /\ \A i \in 1..Len(read_users) :
             read_users[i].role \notin KnownRoles =>
                \A tag \in PermissionTags :
                    ~has_permission(read_users[i], tag)
        /\ \A u \in SessionUsers :
             (/\ get_user(u) # 0
              /\ read_users[get_user(u)].role \notin KnownRoles
              /\ Guarded(u)) =>
                UNCHANGED <<inventory, wasteLog, vendors, categories, users,
                            reports, archive>>
      ]_vars

\* after the admin added an item, a vendor and a category, a user of an
\* unknown role was turned away
C15_Witness ==
    /\ flash = <<"no_permission">>
    /\ pc = "idle"
    /\ Len(read_inventory) = 2
    /\ Len(read_vendors) = 2
    /\ Len(read_categories) = 2

\* the tags the mapping grants to the known roles and to the roles of the
\* users file
GrantedTags ==
    UNION {permissions(role) :
              role \in KnownRoles \cup
                       {read_users[i].role : i \in 1..Len(read_users)}}

\* C16, as claimed: every permission tag that the role mapping grants to any
\* role is one of view, edit, delete, import, export, manage_users,
\* record_counts, approve_orders.
C16_TagsInFixedSet ==
    GrantedTags \subseteq {"view", "edit", "delete", "import", "export",
                           "manage_users", "record_counts", "approve_orders"}

\* C16, amended: every permission tag that the role mapping grants to any
\* role is one of view, edit, delete, import, export, manage_users,
\* record_counts, approve_orders, log_waste.
C16_TagsInFixedSetWithLogWaste ==
    GrantedTags \subseteq {"view", "edit", "delete", "import", "export",
                           "manage_users", "record_counts", "approve_orders",
                           "log_waste"}

\* the users file holds a staff user, whom the mapping grants log_waste, next
\* to users of unknown roles
C16_Witness ==
    /\ \E i \in 1..Len(read_users) :
          /\ read_users[i].role = "staff"
          /\ has_permission(read_users[i], "log_waste")
    /\ \E i \in 1..Len(read_users) : read_users[i].role \notin KnownRoles
    /\ "log_waste" \in GrantedTags

----------------------------------------------------------------------------
(* The collections read while some of their files are missing *)

\* each file is there with one row, or is missing
InitMissing ==
    /\ inventory \in {write_inventory(<<Item("Flour", 2, 1, "General", 2,
                                             <<>>)>>), Missing}
    /\ wasteLog \in {write_waste_log(<<WasteEntry("Flour", 1, "spoiled",
                                                   GoodDate(0), "sam", 2)>>),
                      Missing}
    /\ vendors \in {write_vendors(<<Vendor("Costco", FALSE)>>), Missing}
    /\ categories \in {write_categories(<<Category("General")>>), Missing}
    /\ users \in {File(DefaultUsers), Missing}
    /\ reports = <<>>
    /\ archive = [f \in {} |-> <<>>]
    /\ now = 0
    /\ pc = "idle"
    /\ req = NoRequest
    /\ flash = <<>>
    /\ entries = <<>>
    /\ returned = NoCall
    /\ threads = NoThreads
    /\ inventoryReports = File(<<>>)

\* a call of a reader: the collection it returns
Call_read(call, value) ==
    /\ pc = "idle"
    /\ returned' = Return(call, value)
    /\ UNCHANGED <<inventory, wasteLog, vendors, categories, users, reports,
                   archive, now, pc, req, flash, entries, threads,
                   inventoryReports>>

Call_read_users == Call_read("read_users", read_users)
Call_read_waste_log == Call_read("read_waste_log", read_waste_log)
Call_read_vendors == Call_read("read_vendors", read_vendors)
Call_read_categories == Call_read("read_categories", read_categories)

NextMissing ==
    \/ Call_read_inventory
    \/ Call_read_users
    \/ Call_read_waste_log
    \/ Call_read_vendors
    \/ Call_read_categories
    \/ add_item("admin", "Milk", str_int(2), str_int(1), "General",
                str_int(2), <<>>)
    \/ vendors_add("admin", "HPM", FALSE)
    \/ categories_add("admin", "Dairy")
    \/ waste_log("add", "sam", "Flour", str_int(1), "spoiled", 0)
    \/ waste_log_body

SpecMissing == InitMissing /\ [][NextMissing]_vars

\* C17, as claimed: reading the inventory, the users, the waste log, the
\* vendors or the categories while the backing file is missing returns the
\* empty collection.
C17_MissingFileReadsEmpty ==
    [][ /\ (Call_read_inventory /\ ~inventory.exists) =>
              returned'.value = <<>>
        /\ (Call_read_users /\ ~users.exists) => returned'.value = <<>>
        /\ (Call_read_waste_log /\ ~wasteLog.exists) =>
              returned'.value = <<>>
        /\ (Call_read_vendors /\ ~vendors.exists) => returned'.value = <<>>
        /\ (Call_read_categories /\ ~categories.exists) =>
              returned'.value = <<>>
      ]_vars

\* C17, amended: reading the inventory, the users, the waste log or the
\* vendors while the backing file is missing returns the empty collection,
\* and reading the categories while categories.csv is missing returns the
\* default categories, in the order of DEFAULT_CATEGORIES.
C17_MissingFileReadsEmptyOrDefaults ==
    [][ /\ (Call_read_inventory /\ ~inventory.exists) =>
              returned'.value = <<>>
        /\ (Call_read_users /\ ~users.exists) => returned'.value = <<>>
        /\ (Call_read_waste_log /\ ~wasteLog.exists) =>
              returned'.value = <<>>
        /\ (Call_read_vendors /\ ~vendors.exists) => returned'.value = <<>>
        /\ (Call_read_categories /\ ~categories.exists) =>
              /\ Len(returned'.value) = Len(DEFAULT_CATEGORIES)
              /\ \A i \in 1..Len(DEFAULT_CATEGORIES) :
                    returned'.value[i].name = DEFAULT_CATEGORIES[i]
      ]_vars

\* the categories were read while categories.csv was missing, next to a
\* missing inventory file
C17_Witness ==
    /\ returned.call = "read_categories"
    /\ ~categories.exists
    /\ ~inventory.exists
    /\ Len(returned.value) = 13
    /\ returned.value[1].name = "General"

\* the waste log was read while waste_log.csv was missing
C17_WitnessEmpty ==
    /\ returned.call = "read_waste_log"
    /\ ~wasteLog.exists
    /\ returned.value = <<>>
    /\ inventory.exists

----------------------------------------------------------------------------
(* Requests with names that are missing or taken and with numbers that do *)
(* not parse, next to requests that are accepted                          *)

\* the text of a numeric form field: one that float() and int() reject, and
\* one they accept
FormNumbers == {NotANumber, str_int(1)}

\* uploads: no data row, a header without the required columns, a bad second
\* row after a good first one, and a good file
RejectedUploads ==
    { <<Header>>,
      <<<<"name", "quantity">>, <<"Flour", str_int(2)>>>>,
      <<Header, CsvLine("Milk", str_int(2), 2),
                CsvLine("Flour", NotANumber, 2)>>,
      <<Header, CsvLine("Flour", str_int(2), 3)>> }

InitRejected ==
    /\ inventory = write_inventory(<<Item("Flour", 2, 1, "General", 2, <<>>)>>)
    /\ wasteLog = write_waste_log(<<WasteEntry("Flour", 1, "spoiled",
                                               GoodDate(0), "sam", 2)>>)
    /\ vendors = write_vendors(<<Vendor("Costco", FALSE)>>)
    /\ categories = write_categories(<<Category("General")>>)
    /\ users = File(DefaultUsers)
    /\ reports = <<>>
    /\ archive = [f \in {} |-> <<>>]
    /\ now = 0
    /\ pc = "idle"
    /\ req = NoRequest
    /\ flash = <<>>
    /\ entries = <<>>
    /\ returned = NoCall
    /\ threads = NoThreads
    /\ inventoryReports = File(<<>>)

NextRejected ==
    \/ Tick(ArchiveDays * TicksPerDay)
    \/ \E quantity \in FormNumbers :
          waste_log("add", "sam", "Flour", quantity, "spoiled", 0)
    \/ \E quantity \in FormNumbers :
          /\ RestoredQuantity(0) <= MaxQuantity
          /\ waste_log("edit", "sam", "Flour", quantity, "spoiled", 0)
    \/ archive_waste_log_report
    \/ archive_waste_log_copy
    \/ archive_waste_log_clear
    \/ waste_log_body
    \/ \E quantity \in FormNumbers :
          hpm_items_log_waste("sam", "Flour", quantity, "spoiled")
    \/ \E name \in ItemNames, quantity \in FormNumbers :
          add_item("admin", name, quantity, str_int(1), "General",
                   str_int(2), <<>>)
    \/ \E new_name \in ItemNames, par_level \in FormNumbers :
          edit_item("admin", "Milk", new_name, str_int(1), par_level,
                    "General", str_int(2), <<>>)
    \/ \E count \in FormNumbers : update_count("admin", "Flour", count)
    \/ \E csv_data \in RejectedUploads : import_export("admin", csv_data)
    \/ \E name \in {"", "Costco"} : vendors_add("admin", name, FALSE)
    \/ vendors_edit("admin", "", "Costco", FALSE)
    \/ add_vendor_route("admin", "Costco")
    \/ \E name \in {"", "General"} : categories_add("admin", name)
    \/ categories_edit("admin", "", "General")

SpecRejected == InitRejected /\ [][NextRejected]_vars

\* the messages of a request refused for a name that is missing or taken,
\* for a number that does not parse, or for a bad upload
ValidationFlashes ==
    {"item_exists", "server_error", "import_failed", "vendor_name_required",
     "vendor_exists", "category_name_required", "category_exists",
     "waste_error"}

\* a request that one step handles is refused in this step
RefusedInOneStep ==
    /\ pc = "idle" /\ pc' = "idle"
    /\ flash' # <<>>
    /\ flash'[Len(flash')] \in ValidationFlashes

\* the form of the request in progress on the waste log page carries a
\* quantity that float() rejects
RefusedWasteForm ==
    /\ req.op \in {"add", "edit"}
    /\ float_raises(req.quantity)

\* C18, as claimed: a request rejected for a validation error leaves the
\* inventory, vendor, category and waste-log collections exactly as they
\* were before the request: no step of the request changes them.
C18_RejectedChangesNothing ==
    [][ /\ RefusedInOneStep =>
              UNCHANGED <<inventory, vendors, categories, wasteLog>>
        /\ (pc # "idle" /\ RefusedWasteForm) =>
              UNCHANGED <<inventory, vendors, categories, wasteLog>>
      ]_vars

\* C18, amended: a request rejected for a validation error leaves the
\* inventory, vendor, category and waste-log collections exactly as they
\* were when its handler's own operation began; for a form posted to the
\* waste log page that is after the archival check at the top of the
\* handler, which archives a due log whatever the form holds.
C18_RejectedBodyChangesNothing ==
    [][ /\ RefusedInOneStep =>
              UNCHANGED <<inventory, vendors, categories, wasteLog>>
        /\ (pc = "waste_log_body" /\ RefusedWasteForm) =>
              /\ UNCHANGED <<inventory, vendors, categories, wasteLog>>
              /\ flash'[Len(flash')] = "waste_error"
      ]_vars

\* an upload whose second row is bad was refused, the inventory as it was
C18_Witness ==
    /\ flash = <<"import_failed">>
    /\ pc = "idle"
    /\ Len(read_inventory) = 2
    /\ read_inventory[2].name = "Milk"
    /\ read_inventory[2].par_level = 1

\* a waste form with a malformed quantity was refused after the archival
\* that was due had emptied the live log
C18_WitnessArchived ==
    /\ flash = <<"archived_auto", "waste_error">>
    /\ pc = "idle"
    /\ read_waste_log = <<>>
    /\ Len(reports) = 1

----------------------------------------------------------------------------
(* The waste log and the report log read while they hold rows whose       *)
(* numbers do not parse (files edited outside the program)                *)

\* rows of waste_log.csv: a good one, one whose quantity float() rejects, one
\* whose unit cost holds no digits
WasteFileRows ==
    { [item_name |-> "Flour", quantity |-> str_float(1), reason |-> "spoiled",
       date |-> GoodDate(0), logged_by |-> "sam", unit_cost |-> str_float(2)],
      [item_name |-> "Milk", quantity |-> NotANumber, reason |-> "spoiled",
       date |-> GoodDate(0), logged_by |-> "sam", unit_cost |-> str_float(3)],
      [item_name |-> "Salt", quantity |-> str_float(2), reason |-> "expired",
       date |-> GoodDate(0), logged_by |-> "sam", unit_cost |-> NotANumber] }

\* rows of weekly_waste_reports.csv as save_weekly_report writes them, and
\* one whose total_value float() rejects
ReportFileRows ==
    { save_weekly_report(<<>>, generate_weekly_report(<<>>, 0, 7))[1],
      save_weekly_report(<<>>, generate_weekly_report(<<>>, 7, 14))[1],
      [save_weekly_report(<<>>, generate_weekly_report(<<>>, 14, 21))[1]
          EXCEPT !.total_value = NotANumber] }

InitBadRows ==
    /\ inventory = write_inventory(<<>>)
    /\ \E n \in 0..(MaxLog + 1) :
          \E rows \in [1..n -> WasteFileRows] : wasteLog = File(rows)
    /\ vendors = write_vendors(<<>>)
    /\ categories = write_categories(<<>>)
    /\ users = File(DefaultUsers)
    /\ \E n \in 0..(MaxLog + 1) : reports \in [1..n -> ReportFileRows]
    /\ archive = [f \in {} |-> <<>>]
    /\ now = 0
    /\ pc = "idle"
    /\ req = NoRequest
    /\ flash = <<>>
    /\ entries = <<>>
    /\ returned = NoCall
    /\ threads = NoThreads
    /\ inventoryReports = File(<<>>)

Call_read_weekly_reports ==
    Call_read("read_weekly_reports", read_weekly_reports)

NextBadRows ==
    \/ Call_read_waste_log
    \/ Call_read_weekly_reports

SpecBadRows == InitBadRows /\ [][NextBadRows]_vars

\* every numeric column of the row parses
WellFormedWaste(row) ==
    ~float_raises(row.quantity) /\ ~float_raises(row.unit_cost)
WellFormedReport(row) ==
    ~int_raises(row.total_entries) /\ ~float_raises(row.total_value)

\* the rows of `good` are all among the rows read, in their order
AllReturned(read, good) ==
    SelectSeq(read, LAMBDA r : r \in Range(good)) = good

\* C19: when the live waste log or the weekly report log holds a row with a
\* bad number format, reading it skips that row and still returns every
\* well-formed row, those before and those after the malformed one.
C19_BadRowsSkippedIndividually ==
    [][ /\ Call_read_waste_log =>
              /\ AllReturned(returned'.value,
                     WasteRows(SelectSeq(wasteLog.rows, WellFormedWaste)))
              /\ \A i \in 1..Len(returned'.value) :
                    \E k \in 1..Len(wasteLog.rows) :
                       /\ wasteLog.rows[k].item_name
                             = returned'.value[i].item_name
                       /\ ~float_raises(wasteLog.rows[k].quantity)
        /\ Call_read_weekly_reports =>
              /\ AllReturned(returned'.value,
                     ReportRows(SelectSeq(reports, WellFormedReport)))
              /\ \A i \in 1..Len(returned'.value) :
                    \E k \in 1..Len(reports) :
                       /\ reports[k].week_start
                             = returned'.value[i].week_start
                       /\ WellFormedReport(reports[k])
      ]_vars

\* the half of C19 that is about the live waste log
C19_WasteLogHalf ==
    [][ Call_read_waste_log =>
           AllReturned(returned'.value,
              WasteRows(SelectSeq(wasteLog.rows, WellFormedWaste)))
      ]_vars

\* the waste log was read around a malformed row: the rows before and after
\* it were returned
C19_WasteLogHalfWitness ==
    /\ returned.call = "read_waste_log"
    /\ Len(wasteLog.rows) = 3
    /\ float_raises(wasteLog.rows[2].quantity)
    /\ Len(returned.value) = 2
    /\ returned.value[1].item_name = "Flour"
    /\ returned.value[2].item_name = "Salt"

----------------------------------------------------------------------------
(* add_waste_entry and update_inventory_item called on two threads: each  *)
(* call reads the whole file, changes its own list and writes the whole   *)
(* file, and nothing keeps the steps of two calls apart                   *)

\* a step of a call on a thread, wherever the request of the other thread is
ThreadStep(t, thread) ==
    /\ threads' = [threads EXCEPT ![t] = thread]
    /\ UNCHANGED <<vendors, categories, users, reports, archive, now, pc,
                   req, flash, entries, returned, inventoryReports>>

\* add_waste_entry: entries = read_waste_log()
thread_add_waste_entry(t, item_name, quantity) ==
    /\ threads[t].pc = "idle"
    /\ Len(read_waste_log) < MaxLog
    /\ ThreadStep(t, [pc |-> "read", call |-> "add_waste_entry",
                      name |-> item_name, number |-> quantity,
                      read |-> read_waste_log, result |-> FALSE])
    /\ UNCHANGED <<inventory, wasteLog>>

\* update_inventory_item: items = read_inventory(); return False when no
\* item has the name
thread_update_inventory_item(t, name, quantity) ==
    /\ threads[t].pc = "idle"
    /\ ThreadStep(t, [pc |-> IF get_inventory_item(name) = 0 THEN "done"
                             ELSE "read",
                      call |-> "update_inventory_item",
                      name |-> name, number |-> quantity,
                      read |-> read_inventory, result |-> FALSE])
    /\ UNCHANGED <<inventory, wasteLog>>

\* a faulty variant: the list built from the file as it is at the write
LocalReadAtWrite(t) ==
    IF threads[t].call = "add_waste_entry"
    THEN Append(read_waste_log,
                WasteEntry(threads[t].name, threads[t].number, "spoiled",
                           GoodDate(now), "sam", 0))
    ELSE LET i == get_inventory_item(threads[t].name)
         IN  IF i = 0 THEN read_inventory
             ELSE [read_inventory EXCEPT ![i].quantity = threads[t].number]

\* the thread's list after entries.append(entry), items[i] = updated_item
Local(t) ==
    IF threads[t].call = "add_waste_entry"
    THEN Append(threads[t].read,
                WasteEntry(threads[t].name, threads[t].number, "spoiled",
                           GoodDate(now), "sam", 0))
    ELSE LET items == threads[t].read
             i == FirstIndex(items, threads[t].name, 1)
         IN  update_inventory_item(items, threads[t].name,
                 [items[i] EXCEPT !.quantity = threads[t].number]).rows

\* open(FILE, 'w') empties the file
thread_open(t) ==
    /\ threads[t].pc = "read"
    /\ ThreadStep(t, [threads[t] EXCEPT !.pc = "open"])
    /\ IF threads[t].call = "add_waste_entry"
       THEN wasteLog' = File(<<>>) /\ UNCHANGED inventory
       ELSE inventory' = File(<<>>) /\ UNCHANGED wasteLog

\* writer.writeheader(), writer.writerow(...) of the thread's list
thread_write(t) ==
    /\ threads[t].pc = "open"
    /\ ThreadStep(t, [threads[t] EXCEPT !.pc = "done", !.result = TRUE])
    /\ IF threads[t].call = "add_waste_entry"
       THEN wasteLog' = write_waste_log(Local(t)) /\ UNCHANGED inventory
       ELSE inventory' = write_inventory(Local(t)) /\ UNCHANGED wasteLog

NextThreads ==
    \/ \E t \in Threads, name \in ItemNames :
          thread_add_waste_entry(t, name, 1)
    \/ \E t \in Threads, name \in ItemNames \cup {"Eggs"} :
          thread_update_inventory_item(t, name, 0)
    \/ \E t \in Threads : thread_open(t)
    \/ \E t \in Threads : thread_write(t)

SpecThreads == InitWaste /\ [][NextThreads]_vars

\* C20: two concurrent read-modify-write calls on one file can both complete
\* while the file holds the effect of only one of them. Every write stores
\* the list its thread read, with the thread's own change, over whatever the
\* file holds at that time (this formula); a state with a lost update is
\* reached (C20_Witness).
C20_LastWriteWins ==
    [][ \A t \in Threads :
           thread_write(t) =>
              LET seen == threads[t].read
              IN  IF threads[t].call = "add_waste_entry"
                  THEN /\ Len(read_waste_log') = Len(seen) + 1
                       /\ \A i \in 1..Len(seen) : read_waste_log'[i] = seen[i]
                       /\ read_waste_log'[Len(seen) + 1].item_name
                             = threads[t].name
                  ELSE /\ Len(read_inventory') = Len(seen)
                       /\ \A i \in 1..Len(seen) :
                             IF seen[i].name = threads[t].name
                             THEN read_inventory'[i]
                                    = [seen[i] EXCEPT
                                          !.quantity = threads[t].number]
                             ELSE read_inventory'[i] = seen[i]
      ]_vars

\* two add_waste_entry calls, for Flour and for Milk, have both returned and
\* the waste log, empty before them, holds one entry
C20_Witness ==
    /\ \A t \in Threads :
          /\ threads[t].pc = "done"
          /\ threads[t].call = "add_waste_entry"
          /\ threads[t].result
    /\ threads[1].name # threads[2].name
    /\ Len(read_waste_log) = 1

\* two update_inventory_item calls, setting Flour and Milk to 0, have both
\* returned True and Milk still has its stock
C20_WitnessInventory ==
    /\ \A t \in Threads :
          /\ threads[t].pc = "done"
          /\ threads[t].call = "update_inventory_item"
          /\ threads[t].result
    /\ threads[1].name = "Flour" /\ threads[2].name = "Milk"
    /\ read_inventory[1].name = "Flour" /\ read_inventory[1].quantity = 0
    /\ read_inventory[2].name = "Milk" /\ read_inventory[2].quantity = 2

\* the sum of the fractions f over the finite set S
RECURSIVE FracSumOver(_, _)
FracSumOver(S, f) ==
    IF S = {} THEN <<0, 1>>
    ELSE LET x == CHOOSE x \in S : TRUE
         IN  FracAdd(f[x], FracSumOver(S \ {x}, f))

\* the vendors an item is listed under in the report
ListedUnder(item) ==
    IF get_vendors(item) = <<>> THEN <<"No Vendor">> ELSE get_vendors(item)

\* the times the list names the vendor
Listings(vendor, list) == Cardinality({j \in 1..Len(list) : list[j] = vendor})

\* C14: in the weekly inventory report an item listed under k vendors
\* contributes total_value()/k to each of them (its whole value to
\* 'No Vendor' when it has none), so the by_vendor values and the
\* by_category values each sum to total_value, the sum of
\* quantity * unit_cost over the non-HPM items.
C14_VendorSplit ==
    [][ Call_generate_weekly_inventory_report =>
           LET report == returned'.value
               items == read_inventory
               counted == {i \in 1..Len(items) :
                              "HPM" \notin Range(items[i].vendors)}
               value == [i \in counted |->
                            items[i].quantity * items[i].unit_cost]
               total == SumOver(counted, value)
           IN  /\ report.total_value = total
               /\ DOMAIN report.by_vendor =
                     UNION {Range(ListedUnder(items[i])) : i \in counted}
               /\ \A vendor \in DOMAIN report.by_vendor :
                     FracEq(report.by_vendor[vendor],
                            FracSumOver(counted,
                               [i \in counted |->
                                   <<value[i] * Listings(vendor,
                                                   ListedUnder(items[i])),
                                     Len(ListedUnder(items[i]))>>]))
               /\ FracEq(FracSumOver(DOMAIN report.by_vendor,
                                     report.by_vendor), <<total, 1>>)
               /\ DOMAIN report.by_category =
                     {items[i].category : i \in counted}
               /\ \A category \in DOMAIN report.by_category :
                     report.by_category[category] =
                        SumOver({i \in counted :
                                    items[i].category = category}, value)
               /\ SumOver(DOMAIN report.by_category, report.by_category)
                     = total
      ]_vars

\* a report over an item of two vendors, half of its value to each, next to
\* an HPM item that the report leaves out
C14_Witness ==
    /\ returned.call = "generate_weekly_inventory_report"
    /\ Len(read_inventory) = 2
    /\ read_inventory[1].vendors = <<"Costco", "HPM">>
    /\ read_inventory[1].quantity * read_inventory[1].unit_cost > 0
    /\ read_inventory[2].vendors = <<"Costco", "Sams Club">>
    /\ returned.value.total_value = 6
    /\ DOMAIN returned.value.by_vendor = {"Costco", "Sams Club"}
    /\ FracEq(returned.value.by_vendor["Costco"], <<3, 1>>)
    /\ FracEq(returned.value.by_vendor["Sams Club"], <<3, 1>>)

\* a report over an item without vendors and an item of three listings
C14_WitnessNoVendor ==
    /\ returned.call = "generate_weekly_inventory_report"
    /\ Len(read_inventory) = 2
    /\ DOMAIN returned.value.by_vendor = {"No Vendor", "Costco", "Sams Club"}
    /\ FracEq(returned.value.by_vendor["No Vendor"], <<4, 1>>)
    /\ FracEq(returned.value.by_vendor["Costco"], <<2, 3>>)
    /\ FracEq(returned.value.by_vendor["Sams Club"], <<1, 3>>)

C12_ExportImportLossless ==
    [][ import_export("admin", export_inventory_csv) =>
           /\ flash' = <<"imported">>
           /\ read_inventory' = read_inventory
      ]_vars

----------------------------------------------------------------------------
(* The methods of InventoryItem called on the item of a one-item inventory *)

\* the stock, the par level and the unit cost of the stored item; a count
\* form may carry a negative number, and float() accepts it
ItemQuantities == {-1, 0, 5, 10, 12}
ItemParLevels == {0, 5, 10}
ItemUnitCosts == {0, 2, 3}

InitItems ==
    /\ \E q \in ItemQuantities, p \in ItemParLevels, c \in ItemUnitCosts :
          inventory = write_inventory(
                          <<Item("Flour", q, p, "General", c, <<>>)>>)
    /\ wasteLog = write_waste_log(<<>>)
    /\ vendors = write_vendors(<<Vendor("Sams Club", FALSE),
                                 Vendor("Costco", FALSE)>>)
    /\ categories = write_categories(<<Category("General"),
                                       Category("Produce")>>)
    /\ users = File(DefaultUsers)
    /\ reports = <<>>
    /\ archive = [f \in {} |-> <<>>]
    /\ now = 0
    /\ pc = "idle"
    /\ req = NoRequest
    /\ flash = <<>>
    /\ entries = <<>>
    /\ returned = NoCall
    /\ threads = NoThreads
    /\ inventoryReports = File(<<>>)

Call_is_low_stock == Call_read("is_low_stock", is_low_stock(read_inventory[1]))
Call_total_value == Call_read("total_value", total_value(read_inventory[1]))
Call_quantity_needed ==
    Call_read("quantity_needed", quantity_needed(read_inventory[1]))

NextItems ==
    \/ Call_is_low_stock
    \/ Call_total_value
    \/ Call_quantity_needed

SpecItems == InitItems /\ [][NextItems]_vars

C22_TotalValueIsQuantityTimesCost ==
    returned.call = "total_value" =>
        LET item == read_inventory[1]
        IN  /\ returned.value = item.unit_cost * item.quantity
            /\ item.quantity = 0 => returned.value = 0

\* the value of an item that is out of stock and has a unit cost was asked
C22_Witness ==
    /\ returned.call = "total_value"
    /\ returned.value = 0
    /\ read_inventory[1].quantity = 0
    /\ read_inventory[1].unit_cost = 2

\* C23: for every inventory item, quantity_needed() equals
\* max(0, par_level - quantity): it is never negative, it is 0 whenever
\* quantity >= par_level, and for the item with quantity 5, par_level 10 and
\* unit_cost 2 it is 5 while is_low_stock() is true and total_value() is 10.
C23_QuantityNeeded ==
    LET item == read_inventory[1]
        example == /\ item.quantity = 5
                   /\ item.par_level = 10
                   /\ item.unit_cost = 2
    IN  /\ returned.call = "quantity_needed" =>
              /\ returned.value >= 0
              /\ item.quantity >= item.par_level => returned.value = 0
              /\ item.quantity < item.par_level =>
                     returned.value + item.quantity = item.par_level
              /\ example => returned.value = 5
        /\ returned.call = "is_low_stock" /\ example => returned.value = TRUE
        /\ returned.call = "total_value" /\ example => returned.value = 10

\* the need of the example item was asked
C23_Witness ==
    /\ returned = Return("quantity_needed", 5)
    /\ read_inventory[1].quantity = 5
    /\ read_inventory[1].par_level = 10
    /\ read_inventory[1].unit_cost = 2

\* the need of an item stocked above its par level was asked
C23_WitnessOverstocked ==
    /\ returned = Return("quantity_needed", 0)
    /\ read_inventory[1].quantity = 12
    /\ read_inventory[1].par_level = 10

----------------------------------------------------------------------------
(* The weekly inventory reports and the page that generates them *)

\* a report of an empty inventory generated on the Sunday before day 0
SundayReport ==
    [week_start      |-> -7,
     week_end        |-> -1,
     total_items     |-> str_int(0),
     total_value     |-> str_float(0),
     by_category     |-> [k \in {} |-> 0],
     by_vendor       |-> [k \in {} |-> Frac(0, 1)],
     low_stock_items |-> str_int(0),
     generated_date  |-> GoodDate(-1 * TicksPerDay)]

\* the report file is missing, or holds its header only, or holds the report
\* of last Sunday; day 0 is a Monday
InitInventoryReports ==
    /\ inventory = write_inventory(
                       <<Item("Flour", 2, 1, "General", 2, <<"Costco">>),
                         Item("Milk", 4, 1, "Dairy", 3, <<>>)>>)
    /\ wasteLog = write_waste_log(<<>>)
    /\ vendors = write_vendors(<<Vendor("Sams Club", FALSE),
                                 Vendor("Costco", FALSE)>>)
    /\ categories = write_categories(<<Category("General"),
                                       Category("Produce")>>)
    /\ users = File(RoleUsers)
    /\ reports = <<>>
    /\ archive = [f \in {} |-> <<>>]
    /\ now = 0
    /\ pc = "idle"
    /\ req = NoRequest
    /\ flash = <<>>
    /\ entries = <<>>
    /\ returned = NoCall
    /\ threads = NoThreads
    /\ inventoryReports \in {Missing, File(<<>>), File(<<SundayReport>>)}

NextInventoryReports ==
    \/ \E d \in {TicksPerDay, ReportDays * TicksPerDay} : Tick(d)
    \/ \E u \in {"admin", "sam", "pat"} : weekly_waste_reports(u)
    \/ \E u \in {"admin", "sam"} : force_generate_inventory_report(u)
    \/ \E count \in {0, 3} : update_count("sam", "Flour", str_int(count))

SpecInventoryReports == InitInventoryReports /\ [][NextInventoryReports]_vars

\* the last report was generated at least ReportDays days ago
GeneratedAWeekAgo ==
    LET rows == read_weekly_inventory_reports
    IN  now - rows[Len(rows)].generated_date.at >= ReportDays * TicksPerDay

\* C24: a visit to the weekly reports page by a user who may view it appends
\* one inventory report when no report exists yet or when at least 7 days
\* have passed since the previous report was generated, and appends none
\* otherwise.
C24_ReportEverySevenDays ==
    [][ \A u \in {"admin", "sam"} :
           weekly_waste_reports(u) =>
              LET rows == read_weekly_inventory_reports
              IN  IF rows = <<>> \/ GeneratedAWeekAgo
                  THEN /\ Len(read_weekly_inventory_reports') = Len(rows) + 1
                       /\ SubSeq(read_weekly_inventory_reports', 1, Len(rows))
                             = rows
                  ELSE read_weekly_inventory_reports' = rows
      ]_vars

----------------------------------------------------------------------------
(* The shopping list next to the stock, the vendors of the items and the   *)
(* exclude flags of the vendors                                            *)

\* the stock of the items added: at the par level of 1, and above it
ShoppingQuantities == {1, 2}

Call_get_shopping_list_items ==
    Call_read("get_shopping_list_items", get_shopping_list_items)

NextShopping ==
    \/ \E name \in ItemNames, q \in ShoppingQuantities, vs \in VendorLists :
          add_item("admin", name, str_int(q), str_int(1), "General",
                   str_int(2), vs)
    \/ \E name \in ItemNames : delete_item("admin", name)
    \/ \E exclude \in BOOLEAN : vendors_edit("admin", "Costco", "Costco", exclude)
    \/ \E exclude \in BOOLEAN : vendors_add("admin", "HPM", exclude)
    \/ Call_get_shopping_list_items

SpecShopping == Init /\ [][NextShopping]_vars

\* a vendor row of that name is flagged, or the name is 'HPM'
ExcludedVendor(v) ==
    \/ v = "HPM"
    \/ \E k \in 1..Len(read_vendors) :
          read_vendors[k].name = v /\ read_vendors[k].exclude

\* the rows of the inventory that the claim puts on the shopping list
Listed ==
    {i \in 1..Len(read_inventory) :
        LET item == read_inventory[i]
        IN  /\ item.quantity <= item.par_level
            /\ ~ (/\ item.vendors # <<>>
                  /\ \A k \in 1..Len(item.vendors) :
                        ExcludedVendor(item.vendors[k]))}

C25_WitnessFlagged ==
    /\ returned.call = "get_shopping_list_items"
    /\ Len(read_inventory) = 2
    /\ read_inventory[1].vendors = <<"Costco">>
    /\ read_inventory[2].vendors = <<>>
    /\ \A i \in 1..2 : read_inventory[i].quantity = 1
    /\ ExcludedVendor("Costco")
    /\ returned.value = <<read_inventory[2]>>

----------------------------------------------------------------------------
(* Waste entries logged and deleted again: an item has at most one entry   *)
(* in the live log, and nothing else touches its stock                     *)

\* the wasted quantities: less than the stock of 2, the stock, and more
UndoQuantities == {1, 2, 3}

\* no entry of the live log names the item
NotLogged(name) ==
    \A k \in 1..Len(read_waste_log) : read_waste_log[k].item_name # name

NextUndo ==
    \/ \E name \in ItemNames, q \in UndoQuantities :
          /\ NotLogged(name)
          /\ waste_log("add", "sam", name, str_int(q), "spoiled", 0)
    \/ \E k \in 0..(MaxLog - 1) :
          waste_log("delete", "sam", "", str_int(0), "", k)
    \/ waste_log_body

SpecUndo == InitWaste /\ [][NextUndo]_vars

\* C26: deleting a waste entry undoes the stock effect of logging it: an
\* item of the inventory whose waste entry was logged and then deleted, with
\* no other operation on the item in between, has the stock it had before
\* the entry was logged (2 for both items of the initial inventory).
C26_DeleteUndoesLog ==
    \A i \in 1..Len(read_inventory) :
        (pc = "idle" /\ NotLogged(read_inventory[i].name))
            => read_inventory[i].quantity = 2

----------------------------------------------------------------------------
(* Archivals forced one after another, on one day and a week later         *)

NextSnapshots ==
    \/ Tick(ArchiveDays * TicksPerDay)
    \/ \E a \in WasteAdds :
          waste_log("add", "sam", a[1], str_int(a[2]), a[3], 0)
    \/ waste_log_body
    \/ force_archive("admin")
    \/ archive_waste_log_report
    \/ archive_waste_log_copy
    \/ archive_waste_log_clear

SpecSnapshots == InitWaste /\ [][NextSnapshots]_vars

\* the entries counted by the reports of the weekly report log, and the
\* entries held by the snapshot files of the archive directory
ReportedEntries ==
    SumOver(1..Len(read_weekly_reports),
            [k \in 1..Len(read_weekly_reports) |->
                read_weekly_reports[k].total_entries])
SnapshotEntries ==
    SumOver(DOMAIN archive, [f \in DOMAIN archive |-> Len(archive[f])])

\* C27: archive snapshots are never overwritten: outside an archival in
\* progress, the archive directory holds as many snapshot files as the weekly
\* report log has entries, and the snapshots hold every entry that a report
\* counts.
C27_SnapshotsNeverOverwritten ==
    pc \notin {"archive_copy", "archive_clear"} =>
        /\ Cardinality(DOMAIN archive) = Len(reports)
        /\ SnapshotEntries = ReportedEntries

----------------------------------------------------------------------------
(* add_waste_entry called on a thread while the request of another thread  *)
(* archives the waste log                                                  *)

\* the entries of the calls on the thread: <<item name, quantity>>
RaceAdds == {<<"Flour", 1>>, <<"Milk", 3>>, <<"Eggs", 1>>}

NextRace ==
    \/ \E name \in ItemNames :
          /\ read_waste_log = <<>>
          /\ threads[1].pc = "idle"
          /\ waste_log("add", "sam", name, str_int(1), "expired", 0)
    \/ waste_log_body
    \/ force_archive("admin")
    \/ archive_waste_log_report
    \/ archive_waste_log_copy
    \/ archive_waste_log_clear
    \/ \E a \in RaceAdds : thread_add_waste_entry(1, a[1], a[2])
    \/ thread_open(1)
    \/ thread_write(1)

SpecRace == InitWaste /\ [][NextRace]_vars

\* the entry of the thread is in the live log, in a report, in a snapshot:
\* the thread logs with the reason 'spoiled', the page with 'expired'
InLiveLog == \E k \in 1..Len(read_waste_log) :
                read_waste_log[k].reason = "spoiled"
InReport == \E k \in 1..Len(read_weekly_reports) :
               "spoiled" \in DOMAIN read_weekly_reports[k].by_reason
InSnapshot == \E f \in DOMAIN archive : \E k \in 1..Len(archive[f]) :
                 archive[f][k].reason = "spoiled"

\* C28, as claimed: a waste entry added by a concurrent request while an
\* archival is in progress is not lost: once both requests have finished, the
\* entry is still in the live waste log or is counted in the weekly report
\* appended by the archival.
C28_ConcurrentEntryNotLost ==
    (threads[1].pc = "done" /\ pc = "idle" /\ reports # <<>>)
        => InLiveLog \/ InReport

\* C28, amended: the entry is kept only when add_waste_entry writes the log
\* before the archival reads it or after the archival truncates it. The
\* report appended by an archival counts exactly the entries of the live log
\* at the archival's read; the truncation empties the live log, whatever was
\* written to it since the read, and adds nothing to the report log; the
\* write of add_waste_entry leaves its entry last in the live log.
C28_EntryKeptOutsideTheWindow ==
    [][ /\ (pc = "archive_waste_log" /\ pc' = "archive_copy") =>
              /\ entries' = read_waste_log
              /\ Len(read_weekly_reports') = Len(read_weekly_reports) + 1
              /\ read_weekly_reports'[Len(read_weekly_reports')].total_entries
                    = Len(read_waste_log)
        /\ (pc = "archive_clear" /\ pc' # "archive_clear") =>
              /\ read_waste_log' = <<>>
              /\ reports' = reports
        /\ thread_write(1) =>
              /\ read_waste_log' # <<>>
              /\ read_waste_log'[Len(read_waste_log')].reason = "spoiled"
              /\ read_waste_log'[Len(read_waste_log')].item_name
                    = threads[1].name
      ]_vars

\* both requests have finished, the entry written between the archival's
\* read and its truncation is in the snapshot only
C28_Witness ==
    /\ threads[1].pc = "done"
    /\ pc = "idle"
    /\ flash = <<"archived">>
    /\ Len(reports) = 1
    /\ read_waste_log = <<>>
    /\ ~InReport
    /\ InSnapshot

\* both requests have finished and the entry is nowhere
C28_WitnessLost ==
    /\ threads[1].pc = "done"
    /\ pc = "idle"
    /\ flash = <<"archived">>
    /\ Len(reports) = 1
    /\ ~InLiveLog /\ ~InReport /\ ~InSnapshot

----------------------------------------------------------------------------
(* The requests of a logged-in user whose role grants no permission: pat, *)
(* whose role 'intern' is not in the mapping                               *)

InitUnprivileged ==
    /\ inventory = write_inventory(
                       <<Item("Flour", 2, 1, "General", 2, <<>>),
                         Item("Milk", 2, 1, "Dairy", 3, <<"HPM">>)>>)
    /\ wasteLog = write_waste_log(<<WasteEntry("Flour", 1, "spoiled",
                                               GoodDate(0), "sam", 2)>>)
    /\ vendors = write_vendors(<<Vendor("Costco", FALSE)>>)
    /\ categories = write_categories(<<Category("General")>>)
    /\ users = File(RoleUsers)
    /\ reports = <<>>
    /\ archive = [f \in {} |-> <<>>]
    /\ now = 0
    /\ pc = "idle"
    /\ req = NoRequest
    /\ flash = <<>>
    /\ entries = <<>>
    /\ returned = NoCall
    /\ threads = NoThreads
    /\ inventoryReports = File(<<>>)

\* the counts and the wasted quantities of the forms, one not a number
CountTexts == {str_int(0), str_int(1), str_int(3), NotANumber}

\* the routes that write a quantity, requested by u
QuantityRoutes(u) ==
    \/ \E name \in {"Flour", "Milk", "Salt"}, c \in CountTexts :
          update_count(u, name, c)
    \/ \E name \in {"Flour", "Milk", "Salt"}, c \in CountTexts :
          hpm_items_update_count(u, name, c)
    \/ \E name \in {"Flour", "Milk"}, c \in CountTexts :
          hpm_items_log_waste(u, name, c, "expired")
    \/ \E name \in {"Flour", "Milk", "Salt"}, c \in CountTexts :
          waste_log("add", u, name, c, "expired", 0)
    \/ \E c \in CountTexts, k \in 0..MaxLog :
          /\ RestoredQuantity(k) <= MaxQuantity
          /\ waste_log("edit", u, "Flour", c, "expired", k)
    \/ \E k \in 0..MaxLog :
          /\ RestoredQuantity(k) <= MaxQuantity
          /\ waste_log("delete", u, "", str_int(0), "", k)

NextUnprivileged ==
    \/ QuantityRoutes("pat")
    \/ Guarded("pat")
    \/ waste_log_body

SpecUnprivileged == InitUnprivileged /\ [][NextUnprivileged]_vars

\* the quantities of the inventory, by position
Quantities(rows) == [i \in 1..Len(rows) |-> rows[i].quantity]

\* the role of the user grants neither 'record_counts' nor 'edit'
Unprivileged(u) ==
    /\ get_user(u) # 0
    /\ ~has_permission(read_users[get_user(u)], "record_counts")
    /\ ~has_permission(read_users[get_user(u)], "edit")

\* C29: a logged-in user whose role grants neither 'record_counts' nor
\* 'edit' cannot change the quantity of any inventory item through any
\* route: every request made by such a user leaves all inventory quantities
\* unchanged.
C29_UnprivilegedLeavesQuantities ==
    [][ Unprivileged("pat") =>
            Quantities(read_inventory') = Quantities(read_inventory) ]_vars

----------------------------------------------------------------------------
(* Edits of the live waste log between the visits that check its age: the *)
(* log starts with one entry that sam logged at time 0                     *)

\* the clock steps, in days: the two halves of the archival period
EditDays == {ArchiveDays \div 2, ArchiveDays - ArchiveDays \div 2}

NextEdit ==
    \/ \E d \in EditDays : Tick(d * TicksPerDay)
    \/ /\ should_archive_waste_log => RoomForReport
       /\ waste_log("get", "sam", "", str_int(0), "", 0)
    \/ /\ should_archive_waste_log => RoomForReport
       /\ waste_log("add", "sam", "Flour", str_int(1), "spoiled", 0)
    \/ \E q \in {str_int(1), NotANumber}, k \in 0..MaxLog :
          /\ should_archive_waste_log => RoomForReport
          /\ RestoredQuantity(k) <= MaxQuantity
          /\ waste_log("edit", "admin", "Flour", q, "expired", k)
    \/ waste_log_body
    \/ archive_waste_log_report
    \/ archive_waste_log_copy
    \/ archive_waste_log_clear

SpecEdit == InitRoles /\ [][NextEdit]_vars

\* the edit branch is about to run on a form that parses and an index that
\* is in the log
ValidEdit ==
    /\ pc = "waste_log_body"
    /\ req.op = "edit"
    /\ ~float_raises(req.quantity)
    /\ get_waste_entry(req.entry_index) # 0

\* the entry at position k is the only oldest entry of the rows
OnlyOldest(rows, k) ==
    \A j \in 1..Len(rows) : j # k => rows[j].date.at > rows[k].date.at

\* C30: editing a waste entry at a valid index replaces only that entry (log
\* length and all other entries unchanged) and stamps the replacement with
\* the edit time and the editing user rather than keeping the original date
\* and author, so editing the oldest entry of the live log makes the log
\* younger for the 7-day archival check and can postpone an archival that
\* would otherwise have been due.
C30_EditRestampsEntry ==
    [][ ValidEdit =>
          LET k == req.entry_index + 1
              before == read_waste_log
              after == read_waste_log'
          IN  /\ Len(after) = Len(before)
              /\ \A j \in 1..Len(before) : j # k => after[j] = before[j]
              /\ after[k].date = GoodDate(now)
              /\ after[k].logged_by = req.user
              /\ MinDate(after) >= MinDate(before)
              /\ (OnlyOldest(before, k) /\ before[k].date.at < now) =>
                    MinDate(after) > MinDate(before)
      ]_vars

\* the entry logged at time 0 was edited by the admin before it was seven
\* days old; seven days after it was logged no archival has happened and
\* none is due
C30_Witness ==
    /\ pc = "idle"
    /\ now = ArchiveDays * TicksPerDay
    /\ reports = <<>>
    /\ archive = [f \in {} |-> <<>>]
    /\ Len(read_waste_log) = 1
    /\ read_waste_log[1].logged_by = "admin"
    /\ read_waste_log[1].date.at > 0
    /\ ~should_archive_waste_log

====
